---------------------------- MODULE Spec2Model ----------------------------
(***************************************************************************)
(* Tenant isolation, row visibility, client-group membership, QBO          *)
(* connections and the QBO import-run pipeline of the multi-tenant         *)
(* backend (src/backend/app).                                              *)
(*                                                                         *)
(* The relational store is modelled as committed tables.  A handler that   *)
(* runs in one transaction is one action; process_run, which awaits the    *)
(* provider between its statements, is a sequence of actions working on a  *)
(* session (exec[r]) whose writes reach the tables only at Commit and are  *)
(* discarded when an exception leaves the get_tenant_db block.             *)
(*                                                                         *)
(* Specifications:                                                         *)
(*   Spec        the import pipeline (create run, worker task, retry)      *)
(*   SpecAccess  the read endpoints over a membership graph                *)
(*   SpecMember  client-group membership add / remove                      *)
(*   SpecLive    Spec with a fair worker queue                             *)
(*   SpecCreate  create_import_run statement by statement, with its commit *)
(*   SpecConn    QBO connection create / update / delete / OAuth callback  *)
(*   SpecState   the OAuth state token (encode, tampering, decode)         *)
(*   SpecTenant  the tenant context along a request                        *)
(*   SpecAmount  the amount parser                                         *)
(***************************************************************************)
EXTENDS Integers, Sequences, FiniteSets, TLC

VARIABLES
    entities,               \* table entities: rows [id, tenant_id]
    clientGroups,           \* table client_groups: rows [id, tenant_id]
    tenantMemberships,      \* tenant_memberships joined with roles: rows [tenant_id, user_id, role_slug]
    clientGroupEntities,    \* table client_group_entities: rows [tenant_id, client_group_id, entity_id]
    clientGroupMemberships, \* table client_group_memberships: rows [tenant_id, user_id, client_group_id, role_slug]
    entityMemberships,      \* table entity_memberships: rows [tenant_id, user_id, entity_id]
    connections,            \* table qbo_connections (committed rows)
    runs,                   \* table import_runs (committed rows), a function of the run id
    snapshots,              \* table trial_balance_snapshots (committed rows)
    accounts,               \* table trial_balance_accounts (committed rows)
    lines,                  \* table trial_balance_lines (committed rows)
    tasks,                  \* Celery's record of process_qbo_import_run_task per run
    exec,                   \* the open session of a process_run invocation per run
    throttled,              \* number of 429 answers the provider has given
    connReqs,               \* QBO-connection requests between their checks and their commit
    response,               \* the last HTTP response [op, tenant_id, user_id, status, rows]
    clientGroupTaxYears,    \* table client_group_tax_years (committed rows)
    clock,                  \* int(time.time()) as QBOStateManager reads it
    issued,                 \* the arguments of the last QBOStateManager.encode call
    raw_state,              \* the OAuth state token as it comes back to decode
    decoded,                \* the outcome of the last QBOStateManager.decode call
    TENANT_IDENTIFICATION,  \* settings.TENANT_IDENTIFICATION
    current_tenant_id,      \* the ContextVar current_tenant_id of the serving context
    request,                \* the request in flight through TenantMiddleware.dispatch
    served,                 \* the last request that left TenantMiddleware.dispatch
    value,                  \* the argument of _parse_amount
    parsed,                 \* the outcome of _parse_amount(value)
    creates                 \* the create_import_run requests, each with its session

vars == <<entities, clientGroups, tenantMemberships, clientGroupEntities,
          clientGroupMemberships, entityMemberships, connections, runs,
          snapshots, accounts, lines, tasks, exec, throttled, connReqs, response,
          clientGroupTaxYears, clock, issued, raw_state, decoded,
          TENANT_IDENTIFICATION, current_tenant_id, request, served, value, parsed,
          creates>>

accessVars == <<entities, clientGroups, tenantMemberships, clientGroupEntities,
                clientGroupMemberships, entityMemberships>>

storeVars == <<snapshots, accounts, lines>>

stateVars == <<clock, issued, raw_state, decoded>>

tenantVars == <<TENANT_IDENTIFICATION, current_tenant_id, request, served>>

amountVars == <<value, parsed>>

helperVars == <<stateVars, tenantVars, amountVars, creates>>

dataVars == <<accessVars, connections, runs, storeVars, tasks, exec, throttled,
              connReqs, response, clientGroupTaxYears, creates>>

(***************************************************************************)
(* Bounds and universes                                                    *)
(***************************************************************************)
MaxRuns == 2

MaxThrottles == 2

MaxConnRequests == 2

max_retries == 5

Null == "null"

\* The state outside a specification's own part: no OAuth state issued, the
\* context variable at its default, no request in flight, nothing parsed.
HelperInit ==
    /\ clock = 0
    /\ issued = {}
    /\ raw_state = {}
    /\ decoded = {}
    /\ TENANT_IDENTIFICATION = "subdomain"
    /\ current_tenant_id = Null
    /\ request = {}
    /\ served = {}
    /\ value = Null
    /\ parsed = {}
    /\ creates = << >>

\* The store outside a specification's own part: the tables are empty and
\* no task, session or request exists.
DataInit ==
    /\ entities = {}
    /\ clientGroups = {}
    /\ tenantMemberships = {}
    /\ clientGroupEntities = {}
    /\ clientGroupMemberships = {}
    /\ entityMemberships = {}
    /\ connections = {}
    /\ runs = << >>
    /\ snapshots = {}
    /\ accounts = {}
    /\ lines = {}
    /\ tasks = << >>
    /\ exec = << >>
    /\ throttled = 0
    /\ connReqs = {}
    /\ response = Null
    /\ clientGroupTaxYears = {}
    /\ creates = << >>

Stamp == "utcnow"

CLIENT_ROLE_SLUG == "client"

Tenants == {"t1", "t2"}

Users == {"u1", "u2", "u3"}

EntityRows ==
    { [id |-> "e1", tenant_id |-> "t1"],
      [id |-> "e2", tenant_id |-> "t1"],
      [id |-> "e3", tenant_id |-> "t2"] }

EntityIds == { e.id : e \in EntityRows }

GroupRows ==
    { [id |-> "g1", tenant_id |-> "t1"],
      [id |-> "g2", tenant_id |-> "t1"],
      [id |-> "g3", tenant_id |-> "t2"] }

GroupIds == { g.id : g \in GroupRows }

RunIds == 1..MaxRuns

TaxYears == {2024}

PeriodEnds == {"12-31"}

(***************************************************************************)
(* core/access.py and core/tenant.py: tenant filter, role lookup,          *)
(* visibility filters, tenant access validation                            *)
(***************************************************************************)

\* The query without a tenant predicate
NoTenantFilter(rows, tenant_id) == rows

\* apply_tenant_filter: query.where(model.tenant_id == tenant_id)
ApplyTenantFilter(rows, tenant_id) == { r \in rows : r.tenant_id = tenant_id }

\* get_user_role_slug: Role.slug joined to TenantMembership on role_id for
\* (tenant_id, user_id); a membership whose role_id is NULL joins to nothing.
GetUserRoleSlug(tenant_id, user_id) ==
    LET slugs == { m.role_slug : m \in { x \in tenantMemberships :
                        /\ x.tenant_id = tenant_id
                        /\ x.user_id = user_id
                        /\ x.role_slug # Null } }
    IN  IF slugs = {} THEN Null ELSE CHOOSE s \in slugs : TRUE

\* select(ClientGroupEntity.entity_id).join(ClientGroupMembership, on client_group_id)
\*   .where(membership.tenant_id == tenant_id, membership.user_id == user_id)
GroupEntityIds(tenant_id, user_id) ==
    { ge.entity_id : ge \in { x \in clientGroupEntities :
          \E m \in clientGroupMemberships :
              /\ m.client_group_id = x.client_group_id
              /\ m.tenant_id = tenant_id
              /\ m.user_id = user_id } }

\* select(EntityMembership.entity_id).where(tenant_id, user_id)
DirectEntityIds(tenant_id, user_id) ==
    { em.entity_id : em \in { x \in entityMemberships :
          x.tenant_id = tenant_id /\ x.user_id = user_id } }

\* The group subquery without the union
GroupEntitiesOnly(tenant_id, user_id) == GroupEntityIds(tenant_id, user_id)

\* union(group_entity_ids, direct_entity_ids)
EntityUnion(tenant_id, user_id) ==
    GroupEntityIds(tenant_id, user_id) \cup DirectEntityIds(tenant_id, user_id)

\* apply_entity_visibility: rows pass unchanged unless the role is "client";
\* col names the column holding the entity id.
ApplyEntityVisibility(rows, col, tenant_id, user_id, role_slug) ==
    LET slug == IF role_slug = Null THEN GetUserRoleSlug(tenant_id, user_id)
                ELSE role_slug
    IN  IF slug # CLIENT_ROLE_SLUG THEN rows
        ELSE { r \in rows : r[col] \in EntityUnion(tenant_id, user_id) }

\* A filter that keeps only the groups of the user's memberships whose
\* membership role is client
ClientRoleGroupsOnly(rows, tenant_id, user_id, role_slug) ==
    LET slug == IF role_slug = Null THEN GetUserRoleSlug(tenant_id, user_id)
                ELSE role_slug
    IN  IF slug # CLIENT_ROLE_SLUG THEN rows
        ELSE { g \in rows : g.id \in
                 { m.client_group_id : m \in { x \in clientGroupMemberships :
                       /\ x.tenant_id = tenant_id /\ x.user_id = user_id
                       /\ x.role_slug = CLIENT_ROLE_SLUG } } }

\* apply_client_group_visibility
ApplyClientGroupVisibility(rows, tenant_id, user_id, role_slug) ==
    LET slug == IF role_slug = Null THEN GetUserRoleSlug(tenant_id, user_id)
                ELSE role_slug
    IN  IF slug # CLIENT_ROLE_SLUG THEN rows
        ELSE { g \in rows : g.id \in
                 { m.client_group_id : m \in { x \in clientGroupMemberships :
                       x.tenant_id = tenant_id /\ x.user_id = user_id } } }

\* TenantValidator.validate_tenant_access: the membership check is a TODO;
\* the function returns True.
validate_tenant_access(tenant_id, user_id) == TRUE

\* _require_non_client: 403 when the caller's role is "client"
IsClient(tenant_id, user_id) == GetUserRoleSlug(tenant_id, user_id) = CLIENT_ROLE_SLUG

\* An HTTP exchange: the endpoint, the tenant context, the authenticated
\* user, the request's argument (the id in the path, with the body's fields
\* for a write; Null when there is none), the status code and the rows of
\* the body.
RespFor(op, tenant_id, user_id, id, status, rows) ==
    [op |-> op, tenant_id |-> tenant_id, user_id |-> user_id, id |-> id,
     status |-> status, rows |-> rows]

Resp(op, tenant_id, user_id, status, rows) ==
    RespFor(op, tenant_id, user_id, Null, status, rows)

NoResponse == Resp("none", Null, Null, 0, {})

(***************************************************************************)
(* services/qbo.py _parse_amount.  A text is the sequence of its           *)
(* characters; a Decimal is its sign, coefficient and exponent, or the     *)
(* not-a-number value that Decimal("NaN") constructs.                      *)
(***************************************************************************)
DecimalDigits == <<"0", "1", "2", "3", "4", "5", "6", "7", "8", "9">>

IsDigit(c) == \E i \in 1..10 : DecimalDigits[i] = c

DigitValue(c) == (CHOOSE i \in 1..10 : DecimalDigits[i] = c) - 1

\* Decimal(sign, coefficient, exponent) and Decimal("NaN")
Number(sign, coef, exp) == [nan |-> FALSE, sign |-> sign, coef |-> coef, exp |-> exp]

NaN(sign) == [nan |-> TRUE, sign |-> sign, coef |-> 0, exp |-> 0]

\* Decimal("0")
Zero == Number(0, 0, 0)

\* value.replace(c, "")
Remove(s, c) == SelectSeq(s, LAMBDA x : x # c)

\* s.strip()
RECURSIVE Strip(_)
Strip(s) ==
    IF s = << >> THEN s
    ELSE IF Head(s) = " " THEN Strip(Tail(s))
    ELSE IF s[Len(s)] = " " THEN Strip(SubSeq(s, 1, Len(s) - 1))
    ELSE s

\* clean.startswith("(") and clean.endswith(")")
Parenthesized(s) == Len(s) >= 1 /\ s[1] = "(" /\ s[Len(s)] = ")"

\* The integer written by a sequence of digits; 0 for the empty sequence
RECURSIVE DigitsValue(_)
DigitsValue(s) ==
    IF s = << >> THEN 0
    ELSE 10 * DigitsValue(SubSeq(s, 1, Len(s) - 1)) + DigitValue(s[Len(s)])

AllDigits(s) == \A i \in 1..Len(s) : IsDigit(s[i])

\* decimal.Decimal(text): the value, or InvalidOperation (ok = FALSE).
\* The text is stripped; an optional sign is followed by digits with at
\* most one point and at least one digit, or by "NaN" and optional digits.
\* (Exponents, "Infinity", "+" and "_" are not among the characters explored.)
Decimal(text) ==
    LET s      == Strip(text)
        signed == s # << >> /\ s[1] = "-"
        sign   == IF signed THEN 1 ELSE 0
        body   == IF signed THEN Tail(s) ELSE s
        points == { i \in 1..Len(body) : body[i] = "." }
        p      == IF points = {} THEN Len(body) + 1 ELSE CHOOSE i \in points : TRUE
        int    == SubSeq(body, 1, p - 1)
        frac   == SubSeq(body, p + 1, Len(body))
    IN  IF Len(body) >= 3 /\ SubSeq(body, 1, 3) = <<"N", "a", "N">>
           /\ AllDigits(SubSeq(body, 4, Len(body)))
        THEN [ok |-> TRUE, val |-> NaN(sign)]
        ELSE IF /\ Cardinality(points) <= 1
                /\ AllDigits(int) /\ AllDigits(frac)
                /\ Len(int) + Len(frac) >= 1
        THEN [ok |-> TRUE,
              val |-> Number(sign, DigitsValue(int \o frac), -Len(frac))]
        ELSE [ok |-> FALSE, val |-> Zero]

\* An argument of _parse_amount: a text, or None
Text(s) == [none |-> FALSE, text |-> s]

None == [none |-> TRUE, text |-> << >>]

\* _parse_amount(value)
parse_amount(v) ==
    IF v.none \/ v.text = << >> THEN Zero
    ELSE
      LET stripped == Strip(Remove(v.text, ","))
          clean    == IF Parenthesized(stripped)
                      THEN <<"-">> \o SubSeq(stripped, 2, Len(stripped) - 1)
                      ELSE stripped
      IN  IF Decimal(clean).ok THEN Decimal(clean).val ELSE Zero

(***************************************************************************)
(* The import pipeline: api/v1/qbo_ingestion.py, tasks/qbo_import.py,      *)
(* services/qbo.py, core/database.py                                       *)
(***************************************************************************)

\* Truthiness of an optional text: None and "" are false
Truthy(v) == ~v.none /\ v.text # << >>

UpperCase ==
    <<"A", "B", "C", "D", "E", "F", "G", "H", "I", "J", "K", "L", "M",
      "N", "O", "P", "Q", "R", "S", "T", "U", "V", "W", "X", "Y", "Z">>

LowerCase ==
    <<"a", "b", "c", "d", "e", "f", "g", "h", "i", "j", "k", "l", "m",
      "n", "o", "p", "q", "r", "s", "t", "u", "v", "w", "x", "y", "z">>

\* str.lower(), on texts whose letters are among A-Z and a-z
lower(s) ==
    [i \in 1..Len(s) |->
        IF \E k \in 1..26 : UpperCase[k] = s[i]
        THEN LowerCase[CHOOSE k \in 1..26 : UpperCase[k] = s[i]]
        ELSE s[i]]

\* s.startswith(prefix)
startswith(s, prefix) ==
    Len(s) >= Len(prefix) /\ SubSeq(s, 1, Len(prefix)) = prefix

\* A test of the prefix that respects the letter case
TotalRowCased(account_name) ==
    startswith(account_name.text, <<"t", "o", "t", "a", "l">>)

\* account_name.lower().startswith("total")
TotalRow(account_name) ==
    startswith(lower(account_name.text), <<"t", "o", "t", "a", "l">>)

\* A row of payload["Rows"]["Row"]: ColData as the sequence of its values
\* (the first is the account name, the last the amount) and account.id;
\* a value is a text or None.
ReportRow(col_data, account_id) == [ColData |-> col_data, account |-> account_id]

\* The rows the loop of fetch_trial_balance does not skip
Kept(row) ==
    /\ Len(row.ColData) >= 2
    /\ Truthy(row.ColData[1])
    /\ ~TotalRow(row.ColData[1])

\* A normalized line as fetch_trial_balance appends it
Line(name, amount, ext) ==
    [account_name |-> name, amount |-> amount, external_account_id |-> ext]

\* fetch_trial_balance on the rows of a 2xx answer: the normalized lines
fetch_trial_balance(rows) ==
    LET kept == SelectSeq(rows, Kept)
    IN  [i \in 1..Len(kept) |->
            Line(kept[i].ColData[1],
                 parse_amount(kept[i].ColData[Len(kept[i].ColData)]),
                 kept[i].account)]

\* The reports the provider answers with: two accounts and a total row;
\* one account among rows that are skipped (a total in capitals, a single
\* column, an empty and a missing name); two accounts of one name and a
\* row of that name without account id.
Reports ==
    LET Cash  == Text(<<"C", "a", "s", "h">>)
        Loans == Text(<<"L", "o", "a", "n", "s">>)
        Id1   == Text(<<"1">>)
        Id2   == Text(<<"2">>)
    IN
    { << ReportRow(<<Cash, Text(<<"1", ",", "2", "3", "4", ".", "5", "6">>)>>, Id1),
         ReportRow(<<Loans, Text(<<"(", "5", "0", "0", ".", "0", "0", ")">>)>>, None),
         ReportRow(<<Text(<<"T", "o", "t", "a", "l", " ", "A", "s", "s", "e", "t", "s">>),
                     Text(<<"7", "3", "4", ".", "5", "6">>)>>, None) >>,
      << ReportRow(<<Cash, Text(<<"7", "0", "0">>)>>, Id1),
         ReportRow(<<Text(<<"T", "O", "T", "A", "L">>), Text(<<"7", "0", "0">>)>>, None),
         ReportRow(<<Cash>>, Id1),
         ReportRow(<<Text(<< >>), Text(<<"5">>)>>, None),
         ReportRow(<<None, Text(<<"5">>)>>, None) >>,
      << ReportRow(<<Cash, Text(<<"1">>)>>, Id1),
         ReportRow(<<Cash, Text(<<"2">>)>>, Id2),
         ReportRow(<<Cash, Text(<<"3">>)>>, None) >> }

Idle ==
    [pc |-> "idle", run |-> {}, conn |-> {}, refreshed |-> FALSE,
     rows |-> << >>, snap |-> {}, accts |-> {}, lns |-> {}]

\* ImportRun(...) with the column defaults of models/qbo_ingestion.py
NewRun(id, tenant_id, entity_id, tax_year, period_end_date) ==
    [id |-> id, tenant_id |-> tenant_id, entity_id |-> entity_id,
     tax_year |-> tax_year, period_end_date |-> period_end_date,
     status |-> "queued", started_at |-> Null, finished_at |-> Null,
     error_text |-> Null]

\* The entity lookup of create_import_run: by id, tenant filter, visibility
CreateRunEntity(tenant_id, user_id, entity_id) ==
    ApplyEntityVisibility(
        ApplyTenantFilter({ e \in entities : e.id = entity_id }, tenant_id),
        "id", tenant_id, user_id, Null)

\* db.add(row) followed by the commit: the rows are inserted
InsertRows(table, added) == table \cup added

\* The group lookup of create_import_run: by id, tenant filter
CreateRunGroup(tenant_id, client_group_id) ==
    ApplyTenantFilter({ g \in clientGroups : g.id = client_group_id }, tenant_id)

\* getattr(tax_year_record, "id", None) when there is no record
NoTaxYear == << >>

\* The query of ensure_client_group_tax_year
TaxYearMatches(client_group_id, tax_year) ==
    { y \in clientGroupTaxYears :
        y.client_group_id = client_group_id /\ y.tax_year = tax_year }

\* ClientGroupTaxYear(tenant_id, client_group_id, tax_year); id is the
\* uuid4 the insert draws
NewTaxYear(id, tenant_id, client_group_id, tax_year) ==
    [id |-> <<id>>, tenant_id |-> tenant_id,
     client_group_id |-> client_group_id, tax_year |-> tax_year]

\* ensure_client_group_tax_year: the record found, or the one it adds
ensure_client_group_tax_year(id, tenant_id, client_group_id, tax_year) ==
    IF TaxYearMatches(client_group_id, tax_year) # {}
    THEN CHOOSE y \in TaxYearMatches(client_group_id, tax_year) : TRUE
    ELSE NewTaxYear(id, tenant_id, client_group_id, tax_year)

\* ImportRun(...) of create_import_run with tax_year_record, the set of the
\* record that ensure_client_group_tax_year returned (empty: None)
RunWith(id, tenant_id, entity_id, tax_year, period_end_date, client_group_id, tax_year_record) ==
    NewRun(id, tenant_id, entity_id, tax_year, period_end_date)
    @@ [client_group_id |-> client_group_id,
        client_group_tax_year_id |->
            IF tax_year_record = {} THEN NoTaxYear
            ELSE (CHOOSE y \in tax_year_record : TRUE).id]

\* ImportRun(...) of create_import_run, with the group and its tax year
GroupRun(id, tenant_id, entity_id, tax_year, period_end_date, client_group_id) ==
    RunWith(id, tenant_id, entity_id, tax_year, period_end_date, client_group_id,
            IF client_group_id = Null THEN {}
            ELSE {ensure_client_group_tax_year(id, tenant_id, client_group_id,
                                               tax_year)})

\* A dispatch that sends nothing
NotDispatched(id) == {}

\* background_tasks.add_task(process_qbo_import_run_task.delay, run.id, tenant_id):
\* the tasks dispatched for a new run
Dispatched(id) == {id}

\* create_import_run, the 201 path: the run is persisted queued, with the
\* group's ClientGroupTaxYear when a group is given, and
\* process_qbo_import_run_task.delay(run.id, tenant_id) is dispatched.
CreateImportRun(tenant_id, user_id, entity_id, tax_year, period_end_date, client_group_id) ==
    LET id  == Cardinality(DOMAIN runs) + 1
        run == GroupRun(id, tenant_id, entity_id, tax_year, period_end_date,
                        client_group_id)
    IN
    /\ Cardinality(DOMAIN runs) < MaxRuns
    /\ validate_tenant_access(tenant_id, user_id)
    /\ ~IsClient(tenant_id, user_id)
    /\ CreateRunEntity(tenant_id, user_id, entity_id) # {}
    /\ client_group_id # Null => CreateRunGroup(tenant_id, client_group_id) # {}
    /\ clientGroupTaxYears' =
          IF client_group_id = Null THEN clientGroupTaxYears
          ELSE InsertRows(clientGroupTaxYears,
                 {ensure_client_group_tax_year(id, tenant_id, client_group_id,
                                               tax_year)})
    /\ runs' = runs @@ (id :> run)
    /\ tasks' = tasks @@ [r \in Dispatched(id) |->
                            [state |-> "PENDING", retries |-> 0, last_exc |-> Null,
                             messages |-> 1, active |-> 0]]
    /\ response' = RespFor("create_import_run", tenant_id, user_id,
                           <<entity_id, client_group_id>>, 201, {run})
    /\ UNCHANGED <<helperVars, accessVars, connections, storeVars, exec, throttled, connReqs>>

\* create_import_run, the refusals: 403 for a client, 404 when the entity
\* or the given group is not found in the tenant; nothing is persisted or
\* dispatched.  Create requests are explored until MaxRuns runs exist.
CreateImportRunRefused(tenant_id, user_id, entity_id, client_group_id) ==
    /\ Cardinality(DOMAIN runs) < MaxRuns
    /\ validate_tenant_access(tenant_id, user_id)
    /\ \/ /\ IsClient(tenant_id, user_id)
          /\ response' = RespFor("create_import_run", tenant_id, user_id,
                                 <<entity_id, client_group_id>>, 403, {})
       \/ /\ ~IsClient(tenant_id, user_id)
          /\ CreateRunEntity(tenant_id, user_id, entity_id) = {}
          /\ response' = RespFor("create_import_run", tenant_id, user_id,
                                 <<entity_id, client_group_id>>, 404, {})
       \/ /\ ~IsClient(tenant_id, user_id)
          /\ CreateRunEntity(tenant_id, user_id, entity_id) # {}
          /\ client_group_id # Null
          /\ CreateRunGroup(tenant_id, client_group_id) = {}
          /\ response' = RespFor("create_import_run", tenant_id, user_id,
                                 <<entity_id, client_group_id>>, 404, {})
    /\ UNCHANGED <<helperVars, clientGroupTaxYears, accessVars, connections, runs, storeVars, tasks, exec,
                   throttled, connReqs>>

SessionRun(r) == CHOOSE x \in exec[r].run : TRUE

SessionConn(r) == CHOOSE x \in exec[r].conn : TRUE

\* An exception that leaves the session as it is
SessionKept(r) == exec

\* Leaving the get_tenant_db block by an exception: session.rollback()
Rollback(r) == [exec EXCEPT ![r] = Idle]

\* The task ends with an exception that is not retried
TaskFailure(r, exc) == [tasks EXCEPT ![r].state = "FAILURE", ![r].last_exc = exc]

\* A retry that sends the task's message twice
TaskRetryTwice(r) ==
    IF tasks[r].retries < max_retries
    THEN [tasks EXCEPT ![r].state = "RETRY", ![r].retries = @ + 1,
                       ![r].last_exc = "QBORateLimitExceeded",
                       ![r].messages = @ + 2]
    ELSE TaskFailure(r, "QBORateLimitExceeded")

\* process_qbo_import_run_task on QBORateLimitExceeded: self.retry(exc=exc)
\* sends the task's message again, and re-raises exc once max_retries is
\* used up.
TaskRetry(r) ==
    IF tasks[r].retries < max_retries
    THEN [tasks EXCEPT ![r].state = "RETRY", ![r].retries = @ + 1,
                       ![r].last_exc = "QBORateLimitExceeded",
                       ![r].messages = @ + 1]
    ELSE TaskFailure(r, "QBORateLimitExceeded")

\* A process_run invocation of the task has ended
Ended(t, r) == [t EXCEPT ![r].active = @ - 1]

\* select(QBOConnection).where(entity_id == run.entity_id, tenant_id == tenant_id)
RunConnections(run, tenant_id) ==
    { c \in connections : c.entity_id = run.entity_id /\ c.tenant_id = tenant_id }

\* connection.token_expires_at and connection.token_expires_at < utcnow()
TokenExpired(c) == c.token_expires_at = "past"

\* run.status = "running"; run.started_at = utcnow(); run.finished_at = None
MarkRunning(run) ==
    [run EXCEPT !.status = "running", !.started_at = Stamp, !.finished_at = Null]

\* The worker takes the task: process_run opens the session, loads the run,
\* marks it running and finds the entity's connection (qbo.py 199-213).
\* The next await on the provider is the token refresh or the fetch.
TaskStart(r) ==
    /\ r \in DOMAIN tasks
    /\ tasks[r].messages > 0
    /\ r \in DOMAIN runs
    /\ \E c \in RunConnections(runs[r], runs[r].tenant_id) :
          exec' = [exec EXCEPT ![r] =
              [Idle EXCEPT !.pc = IF TokenExpired(c) THEN "refresh" ELSE "fetch",
                           !.run = {MarkRunning(runs[r])},
                           !.conn = {c}]]
    /\ tasks' = [tasks EXCEPT ![r].state = "STARTED", ![r].messages = @ - 1,
                              ![r].active = @ + 1]
    /\ UNCHANGED <<helperVars, clientGroupTaxYears, accessVars, connections, runs, storeVars, throttled,
                   connReqs, response>>

\* The worker takes the task and process_run raises QBOError before any
\* await on the provider: the run row is not found, or the entity has no
\* connection (qbo.py 200-202, 213-215).  The run was marked running in the
\* session; the exception leaves the session block, which rolls back.
TaskStartRaises(r) ==
    /\ r \in DOMAIN tasks
    /\ tasks[r].messages > 0
    /\ IF r \notin DOMAIN runs
       THEN tasks' = [TaskFailure(r, "QBOError: Import run not found")
                        EXCEPT ![r].messages = @ - 1]
       ELSE /\ RunConnections(runs[r], runs[r].tenant_id) = {}
            /\ tasks' = [TaskFailure(r, "QBOError: QBO connection for entity not found")
                           EXCEPT ![r].messages = @ - 1]
    /\ exec' = Rollback(r)
    /\ UNCHANGED <<helperVars, clientGroupTaxYears, accessVars, connections, runs, storeVars, throttled,
                   connReqs, response>>

\* The provider's answers to a token refresh: with or without a rotated
\* refresh_token and expires_in.
TokenResponses ==
    { [refresh_token |-> TRUE, expires_in |-> TRUE],
      [refresh_token |-> FALSE, expires_in |-> FALSE] }

\* _refresh_tokens, the provider answers 2xx: the new tokens are set on the
\* session's connection object (qbo.py 237-242).
RefreshedConn(conn, token_data) ==
    [conn EXCEPT
        !.access_token = @ + 1,
        !.refresh_token = IF token_data.refresh_token THEN @ + 1 ELSE @,
        !.token_expires_at = IF token_data.expires_in THEN "future" ELSE @]

RefreshOk(r, token_data) ==
    /\ exec[r].pc = "refresh"
    /\ SessionConn(r).refresh_token # 0
    /\ exec' = [exec EXCEPT
          ![r].conn = {RefreshedConn(SessionConn(r), token_data)},
          ![r].refreshed = TRUE,
          ![r].pc = "fetch"]
    /\ UNCHANGED <<helperVars, clientGroupTaxYears, accessVars, connections, runs, storeVars, tasks, throttled,
                   connReqs, response>>

\* _refresh_tokens raises: no refresh token stored, or the provider call
\* fails (raise_for_status, transport error).  The call is outside the
\* try block of process_run, so the exception leaves the session block.
RefreshFails(r) ==
    /\ exec[r].pc = "refresh"
    /\ exec' = Rollback(r)
    /\ tasks' = Ended(TaskFailure(r, IF SessionConn(r).refresh_token = 0
                                     THEN "QBOError: Missing refresh token"
                                     ELSE "HTTPError: token refresh"), r)
    /\ UNCHANGED <<helperVars, clientGroupTaxYears, accessVars, connections, runs, storeVars, throttled,
                   connReqs, response>>

\* The provider throttles the trial-balance report (HTTP 429):
\* QBORateLimitExceeded is re-raised by process_run and leaves the session
\* block; the task asks Celery for a retry.
FetchRateLimited(r) ==
    /\ exec[r].pc = "fetch"
    /\ throttled < MaxThrottles
    /\ throttled' = throttled + 1
    /\ exec' = Rollback(r)
    /\ tasks' = Ended(TaskRetry(r), r)
    /\ UNCHANGED <<helperVars, clientGroupTaxYears, accessVars, connections, runs, storeVars, connReqs, response>>

\* A failure that records no error text
MarkFailedNoText(run, exc) ==
    [run EXCEPT !.status = "failed", !.finished_at = Stamp]

\* run.status = "failed"; run.error_text = str(exc); run.finished_at = utcnow()
MarkFailed(run, exc) ==
    [run EXCEPT !.status = "failed", !.error_text = exc, !.finished_at = Stamp]

\* run.status = "success"; run.finished_at = utcnow(); run.error_text = None
MarkSuccess(run) ==
    [run EXCEPT !.status = "success", !.finished_at = Stamp, !.error_text = Null]

\* key = line_data.get("external_account_id") or line_data["account_name"]
CacheKey(line) ==
    IF Truthy(line.external_account_id) THEN line.external_account_id
    ELSE line.account_name

\* The query of _get_or_create_account over the rows the session sees
AccountMatches(rows, entity_id, tenant_id, name, external_account_id) ==
    { a \in rows :
        /\ a.entity_id = entity_id
        /\ a.tenant_id = tenant_id
        /\ IF Truthy(external_account_id)
           THEN a.external_account_id = external_account_id
           ELSE a.name = name }

\* The loop of _write_snapshot over the fetched lines, from line i on.
\* st = [accts, cache, lns, err]: the accounts and lines added to the
\* session, account_cache as a set of <<key, account id>>, and whether
\* scalar_one_or_none raised (more than one account row matched).
RECURSIVE WriteLines(_, _, _, _, _)
WriteLines(report, i, run, sid, st) ==
    IF i > Len(report) \/ st.err THEN st
    ELSE
      LET line    == report[i]
          key     == CacheKey(line)
          cached  == { k \in st.cache : k[1] = key }
          visible == accounts \cup st.accts
          matches == AccountMatches(visible, run.entity_id, run.tenant_id,
                                    line.account_name, line.external_account_id)
          created == [id |-> <<sid[1], sid[2], i>>,
                      tenant_id |-> run.tenant_id,
                      entity_id |-> run.entity_id,
                      external_account_id |-> line.external_account_id,
                      name |-> line.account_name]
          raises  == cached = {} /\ Cardinality(matches) > 1
          account_id ==
              IF cached # {} THEN (CHOOSE k \in cached : TRUE)[2]
              ELSE IF matches # {} THEN (CHOOSE a \in matches : TRUE).id
              ELSE created.id
          tb_line == [id |-> <<sid[1], sid[2], i>>,
                      tenant_id |-> run.tenant_id,
                      snapshot_id |-> sid,
                      account_id |-> account_id,
                      amount |-> line.amount]
      IN  IF raises THEN [st EXCEPT !.err = TRUE]
          ELSE WriteLines(report, i + 1, run, sid,
                 [accts |-> IF cached = {} /\ matches = {}
                            THEN st.accts \cup {created} ELSE st.accts,
                  cache |-> st.cache \cup {<<key, account_id>>},
                  lns   |-> st.lns \cup {tb_line},
                  err   |-> FALSE])

\* TrialBalanceSnapshot(tenant_id, entity_id, import_run_id, tax_year, period_end_date)
NewSnapshot(sid, run) ==
    [id |-> sid, tenant_id |-> run.tenant_id, entity_id |-> run.entity_id,
     import_run_id |-> run.id, tax_year |-> run.tax_year,
     period_end_date |-> run.period_end_date]

\* The report arrives: fetch_trial_balance normalizes its rows,
\* _write_snapshot adds the snapshot, the accounts and the lines to the
\* session; process_run marks the run success, or failed
\* when _write_snapshot raised.
FetchOk(r, report) ==
    /\ exec[r].pc = "fetch"
    /\ LET run == SessionRun(r)
           sid == <<r, tasks[r].retries>>
           res == WriteLines(fetch_trial_balance(report), 1, run, sid,
                     [accts |-> {}, cache |-> {}, lns |-> {}, err |-> FALSE])
       IN  /\ exec' = [exec EXCEPT
              ![r].rows  = report,
              ![r].snap  = {NewSnapshot(sid, run)},
              ![r].accts = res.accts,
              ![r].lns   = res.lns,
              ![r].run   = {IF res.err THEN MarkFailed(run, "MultipleResultsFound")
                            ELSE MarkSuccess(run)},
              ![r].pc    = "commit"]
           /\ tasks' = IF res.err
                       THEN [tasks EXCEPT ![r].last_exc = "MultipleResultsFound"]
                       ELSE tasks
    /\ UNCHANGED <<helperVars, clientGroupTaxYears, accessVars, connections, runs, storeVars, throttled,
                   connReqs, response>>

\* An upsert keyed by (entity_id, tax_year, period_end_date)
UpsertSnapshots(table, added) ==
    { s \in table :
        ~\E a \in added : /\ a.entity_id = s.entity_id
                          /\ a.tax_year = s.tax_year
                          /\ a.period_end_date = s.period_end_date } \cup added

\* db.add(snapshot) in _write_snapshot: every snapshot is a new row
InsertSnapshots(table, added) == InsertRows(table, added)

\* The UPDATE of the connection's token columns at commit
UpdateConnection(table, conn) ==
    { IF c.id = conn.id
      THEN [c EXCEPT !.access_token = conn.access_token,
                     !.refresh_token = conn.refresh_token,
                     !.token_expires_at = conn.token_expires_at]
      ELSE c : c \in table }

\* The session block is left normally: session.commit() writes the
\* session's run, its connection when refreshed, and the added rows.
Commit(r) ==
    /\ exec[r].pc = "commit"
    /\ runs' = [runs EXCEPT ![r] = SessionRun(r)]
    /\ connections' = IF exec[r].refreshed
                      THEN UpdateConnection(connections, SessionConn(r))
                      ELSE connections
    /\ snapshots' = InsertSnapshots(snapshots, exec[r].snap)
    /\ accounts' = InsertRows(accounts, exec[r].accts)
    /\ lines' = InsertRows(lines, exec[r].lns)
    /\ exec' = [exec EXCEPT ![r] = Idle]
    /\ tasks' = Ended([tasks EXCEPT ![r].state = "SUCCESS"], r)
    /\ UNCHANGED <<helperVars, clientGroupTaxYears, accessVars, throttled, connReqs, response>>

\* Any other exception of the fetch (raise_for_status, transport error) is
\* caught by process_run: the run is marked failed, process_run returns and
\* the session block commits (qbo.py 224-228, database.py 201).
FetchError(r) ==
    /\ exec[r].pc = "fetch"
    /\ runs' = [runs EXCEPT ![r] = MarkFailed(SessionRun(r), "HTTPError: trial balance")]
    /\ connections' = IF exec[r].refreshed
                      THEN UpdateConnection(connections, SessionConn(r))
                      ELSE connections
    /\ exec' = [exec EXCEPT ![r] = Idle]
    /\ tasks' = Ended([tasks EXCEPT ![r].state = "SUCCESS",
                                    ![r].last_exc = "HTTPError: trial balance"], r)
    /\ UNCHANGED <<helperVars, clientGroupTaxYears, accessVars, storeVars, throttled, connReqs, response>>

(***************************************************************************)
(* Spec: the import pipeline                                               *)
(***************************************************************************)
Conn(id, tenant_id, entity_id, realm_id, access_token, refresh_token, expires) ==
    [id |-> id, tenant_id |-> tenant_id, entity_id |-> entity_id,
     realm_id |-> realm_id, access_token |-> access_token,
     refresh_token |-> refresh_token, token_expires_at |-> expires]

Membership(tenant_id, user_id, role_slug) ==
    [tenant_id |-> tenant_id, user_id |-> user_id, role_slug |-> role_slug]

\* u1 is a client of t1, u2 staff of both tenants, u3 member of none.
\* e1 and e3 are linked to QBO, e2 is not; e1's token may have expired and
\* its refresh token may be missing (0).
Init ==
    /\ HelperInit
    /\ clientGroupTaxYears = {}
    /\ entities = EntityRows
    /\ clientGroups = GroupRows
    /\ tenantMemberships = { Membership("t1", "u1", CLIENT_ROLE_SLUG),
                             Membership("t1", "u2", "admin"),
                             Membership("t2", "u2", "admin") }
    /\ clientGroupEntities = {}
    /\ clientGroupMemberships = {}
    /\ entityMemberships = {}
    /\ \E tok \in { <<1, "future">>, <<1, "past">>, <<0, "past">> } :
          connections = { Conn("c1", "t1", "e1", "R1", 1, tok[1], tok[2]),
                          Conn("c3", "t2", "e3", "R1", 1, 1, "future") }
    /\ runs = << >>
    /\ snapshots = {}
    /\ accounts = {}
    /\ lines = {}
    /\ tasks = << >>
    /\ exec = [r \in RunIds |-> Idle]
    /\ throttled = 0
    /\ connReqs = {}
    /\ response = RespFor("none", Null, Null, <<Null, Null>>, 0, {})

\* The callers of the import endpoints: the client u1 and the admin u2 of t1
ImportCallers == { <<"t1", "u1">>, <<"t1", "u2">> }

\* payload.client_group_id: none, a group of t1, a group of t2
RunGroups == {Null, "g1", "g3"}

Next ==
    \/ \E c \in ImportCallers, e \in EntityIds, y \in TaxYears, p \in PeriodEnds,
          g \in RunGroups :
          CreateImportRun(c[1], c[2], e, y, p, g)
    \/ \E c \in ImportCallers, e \in EntityIds, g \in RunGroups :
          CreateImportRunRefused(c[1], c[2], e, g)
    \/ \E r \in RunIds : TaskStart(r)
    \/ \E r \in RunIds : TaskStartRaises(r)
    \/ \E r \in RunIds, token_data \in TokenResponses : RefreshOk(r, token_data)
    \/ \E r \in RunIds : RefreshFails(r)
    \/ \E r \in RunIds : FetchRateLimited(r)
    \/ \E r \in RunIds : FetchError(r)
    \/ \E r \in RunIds, report \in Reports : FetchOk(r, report)
    \/ \E r \in RunIds : Commit(r)

Spec == Init /\ [][Next]_vars

\* One step of the worker on the task of run r: taking the message, or the
\* continuation of process_run once the provider has answered
Worker(r) ==
    \/ TaskStart(r)
    \/ TaskStartRaises(r)
    \/ \E token_data \in TokenResponses : RefreshOk(r, token_data)
    \/ RefreshFails(r)
    \/ FetchRateLimited(r)
    \/ FetchError(r)
    \/ \E report \in Reports : FetchOk(r, report)
    \/ Commit(r)

\* The pipeline with a fair worker queue: a message that waits is taken,
\* every call to the provider (httpx timeout 30 s) is answered, and the
\* retry that Celery schedules (default_retry_delay) is delivered.
SpecLive == Init /\ [][Next]_vars /\ \A r \in RunIds : WF_vars(Worker(r))

(***************************************************************************)
(* SpecCreate: create_import_run statement by statement, two requests at   *)
(* a time, with the commit of get_async_db, the background task that       *)
(* sends the Celery message, and the worker that takes it.                 *)
(* api/v1/qbo_ingestion.py, core/database.py, models/qbo_ingestion.py      *)
(***************************************************************************)

\* A table without the unique constraint: no row holds a key
NoUniqueKey(rows, row) == {}

\* uq_client_group_tax_year (tenant_id, client_group_id, tax_year): the rows
\* that hold the key of row
TaxYearKeyHolders(rows, row) ==
    { y \in rows : /\ y.tenant_id = row.tenant_id
                   /\ y.client_group_id = row.client_group_id
                   /\ y.tax_year = row.tax_year }

\* The ClientGroupTaxYear rows inserted by the other requests' open
\* transactions
PendingTaxYears(q) ==
    UNION { creates[p].added :
              p \in { x \in DOMAIN creates \ {q} :
                        creates[x].pc \in {"returned", "dispatched"} } }

CreateFrame ==
    UNCHANGED <<stateVars, tenantVars, amountVars, accessVars, connections,
                storeVars, exec, throttled, connReqs, response>>

\* create_import_run up to the query of ensure_client_group_tax_year: the
\* checks pass and the query has read the committed rows (qbo_ingestion.py
\* 81-104, qbo.py 325-333).  target is what scalar_one_or_none() returned.
CreateBegin(q, tenant_id, user_id, entity_id, tax_year, period_end_date, client_group_id) ==
    /\ q = Cardinality(DOMAIN creates) + 1
    /\ q \in RunIds
    /\ validate_tenant_access(tenant_id, user_id)
    /\ ~IsClient(tenant_id, user_id)
    /\ CreateRunEntity(tenant_id, user_id, entity_id) # {}
    /\ client_group_id # Null => CreateRunGroup(tenant_id, client_group_id) # {}
    /\ creates' = creates @@ (q :>
          [pc |-> "insert", tenant_id |-> tenant_id, entity_id |-> entity_id,
           tax_year |-> tax_year, period_end_date |-> period_end_date,
           client_group_id |-> client_group_id,
           target |-> IF client_group_id = Null THEN {}
                      ELSE TaxYearMatches(client_group_id, tax_year),
           added |-> {}, run |-> {}])
    /\ UNCHANGED <<clientGroupTaxYears, runs, tasks>>
    /\ CreateFrame

\* The ClientGroupTaxYear that request q adds when its query found none
CreateTaxYear(q) ==
    NewTaxYear(q, creates[q].tenant_id, creates[q].client_group_id,
               creates[q].tax_year)

CreateAdds(q) == creates[q].client_group_id # Null /\ creates[q].target = {}

\* db.add(target); flush (qbo.py 335-341), then db.add(run); flush;
\* add_task; refresh; return run (qbo_ingestion.py 115-128).  The INSERT of
\* a key that an open transaction has inserted waits for that transaction.
CreateInsert(q) ==
    LET c   == creates[q]
        rec == IF c.client_group_id = Null THEN {}
               ELSE IF c.target # {} THEN c.target
               ELSE {CreateTaxYear(q)}
    IN
    /\ q \in DOMAIN creates
    /\ c.pc = "insert"
    /\ CreateAdds(q) => TaxYearKeyHolders(PendingTaxYears(q), CreateTaxYear(q)) = {}
    /\ ~(CreateAdds(q) /\ TaxYearKeyHolders(clientGroupTaxYears, CreateTaxYear(q)) # {})
    /\ creates' = [creates EXCEPT
          ![q].pc = "returned",
          ![q].added = IF CreateAdds(q) THEN {CreateTaxYear(q)} ELSE {},
          ![q].run = {RunWith(q, c.tenant_id, c.entity_id, c.tax_year,
                              c.period_end_date, c.client_group_id, rec)}]
    /\ UNCHANGED <<clientGroupTaxYears, runs, tasks>>
    /\ CreateFrame

\* The flush of the ClientGroupTaxYear violates uq_client_group_tax_year:
\* IntegrityError leaves create_import_run before db.add(run) and add_task;
\* get_async_db rolls back (database.py 171-173) and the answer is 500.
CreateIntegrityError(q) ==
    /\ q \in DOMAIN creates
    /\ creates[q].pc = "insert"
    /\ CreateAdds(q)
    /\ TaxYearKeyHolders(clientGroupTaxYears, CreateTaxYear(q)) # {}
    /\ creates' = [creates EXCEPT ![q].pc = "failed"]
    /\ UNCHANGED <<clientGroupTaxYears, runs, tasks>>
    /\ CreateFrame

\* get_async_db after the yield: session.commit() (database.py 169-170)
CreateCommit(q) ==
    /\ q \in DOMAIN creates
    /\ creates[q].pc \in {"returned", "dispatched"}
    /\ clientGroupTaxYears' = InsertRows(clientGroupTaxYears, creates[q].added)
    /\ runs' = runs @@ (q :> (CHOOSE x \in creates[q].run : TRUE))
    /\ creates' = [creates EXCEPT
          ![q].pc = IF creates[q].pc = "returned" THEN "committed" ELSE "done"]
    /\ UNCHANGED tasks
    /\ CreateFrame

\* The background task of the response runs:
\* process_qbo_import_run_task.delay(run.id, tenant_id) sends the message.
\* Whether the exit code of the dependency get_async_db, and so the commit,
\* runs before or after the background tasks of the response is decided by
\* the installed FastAPI (before: 0.106 to 0.117; after: earlier and later
\* releases); the code fixes neither order.
CreateDispatch(q) ==
    /\ q \in DOMAIN creates
    /\ creates[q].pc \in {"returned", "committed"}
    /\ tasks' = tasks @@ [r \in Dispatched(q) |->
                            [state |-> "PENDING", retries |-> 0, last_exc |-> Null,
                             messages |-> 1, active |-> 0]]
    /\ creates' = [creates EXCEPT
          ![q].pc = IF creates[q].pc = "returned" THEN "dispatched" ELSE "done"]
    /\ UNCHANGED <<clientGroupTaxYears, runs>>
    /\ CreateFrame

\* payload.client_group_id: none, or a group of the caller's tenant
CreateGroups == {Null, "g1", "g2"}

\* payload.entity_id: an entity with and one without QBO connection
CreateEntities == {"e1", "e2"}

InitCreate == Init

NextCreate ==
    \/ \E q \in RunIds, e \in CreateEntities, y \in TaxYears, p \in PeriodEnds,
          g \in CreateGroups :
          CreateBegin(q, "t1", "u2", e, y, p, g)
    \/ \E q \in RunIds : CreateInsert(q)
    \/ \E q \in RunIds : CreateIntegrityError(q)
    \/ \E q \in RunIds : CreateCommit(q)
    \/ \E q \in RunIds : CreateDispatch(q)
    \/ \E r \in RunIds : TaskStart(r)
    \/ \E r \in RunIds : TaskStartRaises(r)

SpecCreate == InitCreate /\ [][NextCreate]_vars

(***************************************************************************)
(* SpecAccess: the list and detail endpoints over a membership graph       *)
(* api/v1/entities.py, client_groups.py, qbo_connections.py,               *)
(* qbo_ingestion.py                                                        *)
(***************************************************************************)

\* A list endpoint: 403 unless validate_tenant_access, else 200 with rows
ListResponse(op, tenant_id, user_id, rows) ==
    IF ~validate_tenant_access(tenant_id, user_id)
    THEN Resp(op, tenant_id, user_id, 403, {})
    ELSE Resp(op, tenant_id, user_id, 200, rows)

\* A detail endpoint: 403 unless validate_tenant_access, 404 when
\* scalar_one_or_none() finds no row, else 200 with the row
DetailResponse(op, tenant_id, user_id, id, rows) ==
    IF ~validate_tenant_access(tenant_id, user_id)
    THEN RespFor(op, tenant_id, user_id, id, 403, {})
    ELSE IF rows = {}
    THEN RespFor(op, tenant_id, user_id, id, 404, {})
    ELSE RespFor(op, tenant_id, user_id, id, 200, rows)

\* The rows of import_runs as a set
RunRows == { runs[r] : r \in DOMAIN runs }

\* select(Entity), tenant filter, entity visibility on Entity.id
VisibleEntities(tenant_id, user_id) ==
    ApplyEntityVisibility(ApplyTenantFilter(entities, tenant_id),
                          "id", tenant_id, user_id, Null)

\* select(ClientGroup), tenant filter, group visibility with the caller's role
VisibleGroups(tenant_id, user_id) ==
    ApplyClientGroupVisibility(ApplyTenantFilter(clientGroups, tenant_id),
                               tenant_id, user_id,
                               GetUserRoleSlug(tenant_id, user_id))

\* select(QBOConnection).join(Entity), tenant filter on QBOConnection,
\* entity visibility on Entity.id
VisibleConnections(tenant_id, user_id) ==
    ApplyEntityVisibility(
        ApplyTenantFilter(
            { c \in connections : \E e \in entities : e.id = c.entity_id },
            tenant_id),
        "entity_id", tenant_id, user_id, Null)

\* select(ImportRun), tenant filter, entity visibility on ImportRun.entity_id
VisibleRuns(tenant_id, user_id) ==
    ApplyEntityVisibility(ApplyTenantFilter(RunRows, tenant_id),
                          "entity_id", tenant_id, user_id, Null)

ReadUnchanged ==
    UNCHANGED <<helperVars, clientGroupTaxYears, accessVars, connections, runs, storeVars, tasks, exec,
                throttled, connReqs>>

list_entities(tenant_id, user_id) ==
    /\ response' = ListResponse("list_entities", tenant_id, user_id,
                                VisibleEntities(tenant_id, user_id))
    /\ ReadUnchanged

get_entity(tenant_id, user_id, entity_id) ==
    /\ response' = DetailResponse("get_entity", tenant_id, user_id, entity_id,
          { e \in VisibleEntities(tenant_id, user_id) : e.id = entity_id })
    /\ ReadUnchanged

list_client_groups(tenant_id, user_id) ==
    /\ response' = ListResponse("list_client_groups", tenant_id, user_id,
                                VisibleGroups(tenant_id, user_id))
    /\ ReadUnchanged

get_client_group(tenant_id, user_id, group_id) ==
    /\ response' = DetailResponse("get_client_group", tenant_id, user_id, group_id,
          { g \in VisibleGroups(tenant_id, user_id) : g.id = group_id })
    /\ ReadUnchanged

list_qbo_connections(tenant_id, user_id) ==
    /\ response' = ListResponse("list_qbo_connections", tenant_id, user_id,
                                VisibleConnections(tenant_id, user_id))
    /\ ReadUnchanged

get_qbo_connection(tenant_id, user_id, connection_id) ==
    /\ response' = DetailResponse("get_qbo_connection", tenant_id, user_id,
          connection_id,
          { c \in VisibleConnections(tenant_id, user_id) : c.id = connection_id })
    /\ ReadUnchanged

\* list_import_runs; entity_id is the optional query filter (Null: absent)
list_import_runs(tenant_id, user_id, entity_id) ==
    /\ response' = RespFor("list_import_runs", tenant_id, user_id, entity_id,
          IF validate_tenant_access(tenant_id, user_id) THEN 200 ELSE 403,
          IF validate_tenant_access(tenant_id, user_id)
          THEN { r \in VisibleRuns(tenant_id, user_id) :
                    entity_id = Null \/ r.entity_id = entity_id }
          ELSE {})
    /\ ReadUnchanged

get_import_run(tenant_id, user_id, run_id) ==
    /\ response' = DetailResponse("get_import_run", tenant_id, user_id, run_id,
          { r \in VisibleRuns(tenant_id, user_id) : r.id = run_id })
    /\ ReadUnchanged

\* The membership graphs explored: u1's role in t1 (client, staff, a
\* membership without role, or no membership), u1 client of t2 and member of
\* its group g3, u2 staff of t1; u1's group memberships, the group entity
\* assignments and u1's direct entity membership in t1, and whether g3
\* holds e3 in t2.
AccessRoles == { {Membership("t1", "u1", CLIENT_ROLE_SLUG)},
                 {Membership("t1", "u1", "admin")},
                 {Membership("t1", "u1", Null)},
                 {} }

GroupMember(tenant_id, user_id, group_id, role_slug) ==
    [tenant_id |-> tenant_id, user_id |-> user_id,
     client_group_id |-> group_id, role_slug |-> role_slug]

GroupEntity(tenant_id, group_id, entity_id) ==
    [tenant_id |-> tenant_id, client_group_id |-> group_id, entity_id |-> entity_id]

EntityMember(tenant_id, user_id, entity_id) ==
    [tenant_id |-> tenant_id, user_id |-> user_id, entity_id |-> entity_id]

AccessGroupMembers ==
    { GroupMember("t1", "u1", "g1", CLIENT_ROLE_SLUG),
      GroupMember("t1", "u1", "g2", "advisor") }

AccessGroupEntities ==
    { GroupEntity("t1", "g1", "e1"), GroupEntity("t1", "g2", "e2"),
      GroupEntity("t2", "g3", "e3") }

AccessEntityMembers == { EntityMember("t1", "u1", "e2") }

AccessRunIds == {1, 2, 3}

InitAccess ==
    /\ HelperInit
    /\ clientGroupTaxYears = {}
    /\ entities = EntityRows
    /\ clientGroups = GroupRows
    /\ \E roles \in AccessRoles :
          tenantMemberships = roles \cup { Membership("t2", "u1", CLIENT_ROLE_SLUG),
                                           Membership("t1", "u2", "admin") }
    /\ \E members \in SUBSET AccessGroupMembers :
          clientGroupMemberships =
              members \cup { GroupMember("t2", "u1", "g3", CLIENT_ROLE_SLUG) }
    /\ clientGroupEntities \in SUBSET AccessGroupEntities
    /\ entityMemberships \in SUBSET AccessEntityMembers
    /\ connections = { Conn("c1", "t1", "e1", "R1", 1, 1, "future"),
                       Conn("c2", "t1", "e2", "R2", 1, 1, "future"),
                       Conn("c3", "t2", "e3", "R1", 1, 1, "future") }
    /\ runs = (1 :> NewRun(1, "t1", "e1", 2024, "12-31"))
           @@ (2 :> NewRun(2, "t1", "e2", 2024, "12-31"))
           @@ (3 :> NewRun(3, "t2", "e3", 2024, "12-31"))
    /\ snapshots = {}
    /\ accounts = {}
    /\ lines = {}
    /\ tasks = << >>
    /\ exec = [r \in RunIds |-> Idle]
    /\ throttled = 0
    /\ connReqs = {}
    /\ response = NoResponse

NextAccess ==
    \/ \E t \in Tenants, u \in Users : list_entities(t, u)
    \/ \E t \in Tenants, u \in Users, e \in EntityIds : get_entity(t, u, e)
    \/ \E t \in Tenants, u \in Users : list_client_groups(t, u)
    \/ \E t \in Tenants, u \in Users, g \in GroupIds : get_client_group(t, u, g)
    \/ \E t \in Tenants, u \in Users : list_qbo_connections(t, u)
    \/ \E t \in Tenants, u \in Users, c \in {"c1", "c2", "c3"} :
          get_qbo_connection(t, u, c)
    \/ \E t \in Tenants, u \in Users, e \in EntityIds \cup {Null} :
          list_import_runs(t, u, e)
    \/ \E t \in Tenants, u \in Users, r \in AccessRunIds : get_import_run(t, u, r)

SpecAccess == InitAccess /\ [][NextAccess]_vars

(***************************************************************************)
(* SpecMember: client-group membership, api/v1/client_groups.py and the    *)
(* constraints of models/client_group.py                                   *)
(***************************************************************************)

\* uq_client_group_membership alone: (tenant_id, user_id, client_group_id)
UniqueMembershipViolated(table, row) ==
    \E m \in table : /\ m.tenant_id = row.tenant_id
                     /\ m.user_id = row.user_id
                     /\ m.client_group_id = row.client_group_id

\* The table without the partial unique index
MembershipKeyOnly(table, row) == UniqueMembershipViolated(table, row)

\* The INSERT of row breaks uq_client_group_membership or the partial
\* unique index uq_client_group_memberships_client_user
\* (tenant_id, user_id) WHERE role_slug = 'client'
MembershipInsertViolates(table, row) ==
    \/ UniqueMembershipViolated(table, row)
    \/ /\ row.role_slug = "client"
       /\ \E m \in table : /\ m.tenant_id = row.tenant_id
                           /\ m.user_id = row.user_id
                           /\ m.role_slug = "client"

MemberUnchanged ==
    UNCHANGED <<helperVars, clientGroupTaxYears, entities, clientGroups, tenantMemberships, clientGroupEntities,
                entityMemberships, connections, runs, storeVars, tasks, exec,
                throttled, connReqs>>

\* add_member_to_group: 403 without tenant access or for a client, 404 when
\* the group is not in the tenant, 409 when the commit raises, else the row
\* is stored and returned.
add_member_to_group(tenant_id, caller, group_id, user_id, role_slug) ==
    LET arg == <<group_id, user_id, role_slug>>
        row == GroupMember(tenant_id, user_id, group_id, role_slug)
        op  == "add_member_to_group"
    IN
    /\ IF ~validate_tenant_access(tenant_id, caller) \/ IsClient(tenant_id, caller)
       THEN /\ response' = RespFor(op, tenant_id, caller, arg, 403, {})
            /\ UNCHANGED clientGroupMemberships
       ELSE IF ApplyTenantFilter({ g \in clientGroups : g.id = group_id }, tenant_id) = {}
       THEN /\ response' = RespFor(op, tenant_id, caller, arg, 404, {})
            /\ UNCHANGED clientGroupMemberships
       ELSE IF MembershipInsertViolates(clientGroupMemberships, row)
       THEN /\ response' = RespFor(op, tenant_id, caller, arg, 409, {})
            /\ UNCHANGED clientGroupMemberships
       ELSE /\ response' = RespFor(op, tenant_id, caller, arg, 200, {row})
            /\ clientGroupMemberships' = InsertRows(clientGroupMemberships, {row})
    /\ MemberUnchanged

\* remove_member_from_group: the membership id of the path is the row it
\* names; 404 unless that row is in the tenant and the group of the path.
remove_member_from_group(tenant_id, caller, group_id, membership) ==
    LET arg == <<group_id, membership.user_id, membership.role_slug>>
        op  == "remove_member_from_group"
    IN
    /\ IF ~validate_tenant_access(tenant_id, caller) \/ IsClient(tenant_id, caller)
       THEN /\ response' = RespFor(op, tenant_id, caller, arg, 403, {})
            /\ UNCHANGED clientGroupMemberships
       ELSE IF { m \in clientGroupMemberships :
                    /\ m.tenant_id = tenant_id
                    /\ m.client_group_id = group_id
                    /\ m = membership } = {}
       THEN /\ response' = RespFor(op, tenant_id, caller, arg, 404, {})
            /\ UNCHANGED clientGroupMemberships
       ELSE /\ response' = RespFor(op, tenant_id, caller, arg, 204, {})
            /\ clientGroupMemberships' = clientGroupMemberships \ {membership}
    /\ MemberUnchanged

\* The callers of the membership endpoints: the admin u2 in both tenants
\* and the client u1 of t1; the users added: u1 and u3
MemberCallers == { <<"t1", "u2">>, <<"t2", "u2">>, <<"t1", "u1">> }

MemberUsers == {"u1", "u3"}

MemberRoles == {CLIENT_ROLE_SLUG, "advisor"}

InitMember ==
    /\ HelperInit
    /\ clientGroupTaxYears = {}
    /\ entities = EntityRows
    /\ clientGroups = GroupRows
    /\ tenantMemberships = { Membership("t1", "u1", CLIENT_ROLE_SLUG),
                             Membership("t1", "u2", "admin"),
                             Membership("t2", "u2", "admin") }
    /\ clientGroupEntities = {}
    /\ clientGroupMemberships = {}
    /\ entityMemberships = {}
    /\ connections = { Conn("c1", "t1", "e1", "R1", 1, 1, "future"),
                       Conn("c3", "t2", "e3", "R1", 1, 1, "future") }
    /\ runs = << >>
    /\ snapshots = {}
    /\ accounts = {}
    /\ lines = {}
    /\ tasks = << >>
    /\ exec = [r \in RunIds |-> Idle]
    /\ throttled = 0
    /\ connReqs = {}
    /\ response = NoResponse

NextMember ==
    \/ \E c \in MemberCallers, g \in GroupIds, u \in MemberUsers, role \in MemberRoles :
          add_member_to_group(c[1], c[2], g, u, role)
    \/ \E c \in MemberCallers, g \in GroupIds, m \in clientGroupMemberships :
          remove_member_from_group(c[1], c[2], g, m)

SpecMember == InitMember /\ [][NextMember]_vars

(***************************************************************************)
(* SpecConn: QBO connections, api/v1/qbo_connections.py and the unique     *)
(* constraints of models/entity.py.  A writing handler awaits the          *)
(* database between its SELECTs and its COMMIT, so it is two actions: the   *)
(* checks, which leave the request in connReqs, and the commit.            *)
(***************************************************************************)

Realms == {"R1", "R2"}

ConnIdPool == {"c1", "c2", "c3", "c4", "c5", "c6", "c7"}

\* The connection ids requests name: those of the stored rows and one that
\* no row has
RequestConnIds == { c.id : c \in connections } \cup {"c0"}

\* uq_qbo_connections_entity and uq_qbo_connections_tenant_realm
ConnUnique(table) ==
    \A a, b \in table :
        a # b => /\ a.entity_id # b.entity_id
                 /\ ~(a.tenant_id = b.tenant_id /\ a.realm_id = b.realm_id)

\* A request that has passed its checks: conn holds the row it loaded
ConnReq(kind, tenant_id, user_id, entity_id, realm_id, conn) ==
    [kind |-> kind, tenant_id |-> tenant_id, user_id |-> user_id,
     entity_id |-> entity_id, realm_id |-> realm_id, conn |-> conn]

\* The primary key of a new row: uuid4, an id no row and no session holds
FreshConnId ==
    CHOOSE id \in ConnIdPool :
        /\ \A c \in connections : c.id # id
        /\ \A q \in connReqs : \A c \in q.conn : c.id # id

\* The table after the request's INSERT or UPDATE, constraints aside
WriteResult(table, q) ==
    IF q.conn = {}
    THEN table \cup { Conn(FreshConnId, q.tenant_id, q.entity_id, q.realm_id,
                           1, 1, "future") }
    ELSE { IF \E l \in q.conn : l.id = c.id
           THEN IF q.kind = "callback"
                THEN [c EXCEPT !.realm_id = q.realm_id, !.access_token = 1,
                               !.refresh_token = 1, !.token_expires_at = "future"]
                ELSE IF q.realm_id # Null THEN [c EXCEPT !.realm_id = q.realm_id]
                ELSE c
           ELSE c : c \in table }

\* The row the request loaded has been deleted since
RowGone(table, q) == \E l \in q.conn : \A c \in table : c.id # l.id

\* The commit of a request: the database refuses a write that breaks a
\* unique constraint (IntegrityError) or updates a deleted row
\* (StaleDataError); the handler does not catch either and the framework
\* answers 500.
CommitConnReq(q, op, ok_status) ==
    /\ q \in connReqs
    /\ connReqs' = connReqs \ {q}
    /\ IF RowGone(connections, q) \/ ~ConnUnique(WriteResult(connections, q))
       THEN /\ connections' = connections
            /\ response' = Resp(op, q.tenant_id, q.user_id, 500, {})
       ELSE /\ connections' = WriteResult(connections, q)
            /\ response' = Resp(op, q.tenant_id, q.user_id, ok_status, {})
    /\ UNCHANGED <<helperVars, clientGroupTaxYears, accessVars, runs, storeVars, tasks, exec, throttled>>

\* A request is refused by the handler's own checks
RefuseConnReq(op, tenant_id, user_id, status) ==
    /\ response' = Resp(op, tenant_id, user_id, status, {})
    /\ UNCHANGED <<helperVars, clientGroupTaxYears, accessVars, connections, runs, storeVars, tasks, exec,
                   throttled, connReqs>>

\* A request has passed the handler's checks and awaits its commit
AdmitConnReq(q) ==
    /\ connReqs' = connReqs \cup {q}
    /\ UNCHANGED <<helperVars, clientGroupTaxYears, accessVars, connections, runs, storeVars, tasks, exec,
                   throttled, response>>

\* create_qbo_connection up to db.commit()
create_qbo_connection(tenant_id, user_id, entity_id, realm_id) ==
    LET op == "create_qbo_connection" IN
    /\ Cardinality(connReqs) < MaxConnRequests
    /\ IF ~validate_tenant_access(tenant_id, user_id) \/ IsClient(tenant_id, user_id)
       THEN RefuseConnReq(op, tenant_id, user_id, 403)
       ELSE IF ApplyTenantFilter({ e \in entities : e.id = entity_id }, tenant_id) = {}
       THEN RefuseConnReq(op, tenant_id, user_id, 404)
       ELSE IF \E c \in connections : c.entity_id = entity_id
       THEN RefuseConnReq(op, tenant_id, user_id, 409)
       ELSE IF \E c \in connections : c.tenant_id = tenant_id /\ c.realm_id = realm_id
       THEN RefuseConnReq(op, tenant_id, user_id, 409)
       ELSE AdmitConnReq(ConnReq("create", tenant_id, user_id, entity_id, realm_id, {}))

\* create_qbo_connection: db.commit() of the new row
create_qbo_connection_commit(q) ==
    /\ q.kind = "create"
    /\ CommitConnReq(q, "create_qbo_connection", 201)

\* update_qbo_connection up to db.commit(); realm_id Null: not in the body
update_qbo_connection(tenant_id, user_id, connection_id, realm_id) ==
    LET op == "update_qbo_connection"
        found == ApplyTenantFilter(
                    { c \in connections : /\ c.id = connection_id
                                          /\ \E e \in entities : e.id = c.entity_id },
                    tenant_id)
    IN
    /\ Cardinality(connReqs) < MaxConnRequests
    /\ IF ~validate_tenant_access(tenant_id, user_id) \/ IsClient(tenant_id, user_id)
       THEN RefuseConnReq(op, tenant_id, user_id, 403)
       ELSE IF found = {}
       THEN RefuseConnReq(op, tenant_id, user_id, 404)
       ELSE IF /\ realm_id # Null
               /\ \E l \in found : realm_id # l.realm_id
               /\ \E c \in connections : c.tenant_id = tenant_id /\ c.realm_id = realm_id
       THEN RefuseConnReq(op, tenant_id, user_id, 409)
       ELSE \E l \in found :
               AdmitConnReq(ConnReq("update", tenant_id, user_id, l.entity_id,
                                    realm_id, {l}))

\* update_qbo_connection: db.commit() of the changed row
update_qbo_connection_commit(q) ==
    /\ q.kind = "update"
    /\ CommitConnReq(q, "update_qbo_connection", 200)

\* delete_qbo_connection; the session commits when the handler returns
delete_qbo_connection(tenant_id, user_id, connection_id) ==
    LET op == "delete_qbo_connection"
        found == ApplyTenantFilter({ c \in connections : c.id = connection_id },
                                   tenant_id)
    IN
    IF ~validate_tenant_access(tenant_id, user_id) \/ IsClient(tenant_id, user_id)
    THEN RefuseConnReq(op, tenant_id, user_id, 403)
    ELSE IF found = {}
    THEN RefuseConnReq(op, tenant_id, user_id, 404)
    ELSE /\ connections' = connections \ found
         /\ response' = Resp(op, tenant_id, user_id, 204, {})
         /\ UNCHANGED <<helperVars, clientGroupTaxYears, accessVars, runs, storeVars, tasks, exec, throttled,
                        connReqs>>

\* qbo_oauth_callback with a state that decodes to (tenant_id, entity_id)
\* and a code the provider accepts, up to the exit of the session block
qbo_oauth_callback(tenant_id, entity_id, realmId) ==
    LET op == "qbo_oauth_callback"
        existing == { c \in connections : c.entity_id = entity_id }
    IN
    /\ Cardinality(connReqs) < MaxConnRequests
    /\ IF \E c \in connections : /\ c.tenant_id = tenant_id
                                 /\ c.realm_id = realmId
                                 /\ c.entity_id # entity_id
       THEN RefuseConnReq(op, tenant_id, Null, 409)
       ELSE AdmitConnReq(ConnReq("callback", tenant_id, Null, entity_id,
                                 realmId, existing))

\* qbo_oauth_callback: the commit at the exit of the session block, then
\* the redirect
qbo_oauth_callback_commit(q) ==
    /\ q.kind = "callback"
    /\ CommitConnReq(q, "qbo_oauth_callback", 307)

\* The callers of the connection endpoints: the admin u2 and the client u1
\* of t1; the OAuth states in flight were issued for t1's entities
ConnCallers == { <<"t1", "u2">>, <<"t1", "u1">> }

OAuthStates == { <<"t1", "e1">>, <<"t1", "e2">> }

InitConn ==
    /\ HelperInit
    /\ clientGroupTaxYears = {}
    /\ entities = EntityRows
    /\ clientGroups = GroupRows
    /\ tenantMemberships = { Membership("t1", "u1", CLIENT_ROLE_SLUG),
                             Membership("t1", "u2", "admin"),
                             Membership("t2", "u2", "admin") }
    /\ clientGroupEntities = {}
    /\ clientGroupMemberships = {}
    /\ entityMemberships = {}
    /\ connections = { Conn("c1", "t1", "e1", "R1", 1, 1, "future"),
                       Conn("c3", "t2", "e3", "R1", 1, 1, "future") }
    /\ runs = << >>
    /\ snapshots = {}
    /\ accounts = {}
    /\ lines = {}
    /\ tasks = << >>
    /\ exec = [r \in RunIds |-> Idle]
    /\ throttled = 0
    /\ connReqs = {}
    /\ response = NoResponse

NextConn ==
    \/ \E c \in ConnCallers, e \in EntityIds, realm \in Realms :
          create_qbo_connection(c[1], c[2], e, realm)
    \/ \E q \in connReqs : create_qbo_connection_commit(q)
    \/ \E c \in ConnCallers, id \in RequestConnIds, realm \in Realms \cup {Null} :
          update_qbo_connection(c[1], c[2], id, realm)
    \/ \E q \in connReqs : update_qbo_connection_commit(q)
    \/ \E c \in ConnCallers, id \in RequestConnIds : delete_qbo_connection(c[1], c[2], id)
    \/ \E st \in OAuthStates, realm \in Realms : qbo_oauth_callback(st[1], st[2], realm)
    \/ \E q \in connReqs : qbo_oauth_callback_commit(q)

SpecConn == InitConn /\ [][NextConn]_vars

(***************************************************************************)
(* SpecState: the OAuth state token, services/qbo.py QBOStateManager.      *)
(* A flow is encode, the token's trip through the browser (where it can    *)
(* be changed and time passes), then decode in the callback.               *)
(***************************************************************************)
TTL_SECONDS == 600

SECRET_KEY == "settings.SECRET_KEY"

\* The instants at which time.time() is read
Clocks == {0, 1, TTL_SECONDS, TTL_SECONDS + 1, 2 * TTL_SECONDS + 1}

StateTenants == {"t1", "t2"}

StateEntities == {"e1", "e2"}

\* settings.QBO_REDIRECT_URI, the redirect URI of the connect endpoint
QBO_REDIRECT_URI == "https://app/callback"

RedirectUris == {QBO_REDIRECT_URI, "https://evil/callback"}

\* next_url: not passed (None), empty, or a path
NextUrls == {Null, "", "/entities", "/evil"}

Abs(x) == IF x < 0 THEN -x ELSE x

\* hmac.new(key, f"{tenant_id}|{entity_id}|{ts}", sha256).hexdigest(): the
\* digest is determined by the key and by these three fields of the payload,
\* and two digests are equal only when the key and the three fields are.
Hmac(key, payload) ==
    [key |-> key,
     msg |-> <<payload.tenant_id, payload.entity_id, payload.ts>>]

signature(payload) == Hmac(SECRET_KEY, payload)

\* A payload that never carries "next"
WithoutNext(payload, next_url) == payload

\* if next_url: payload["next"] = next_url
WithNext(payload, next_url) ==
    IF next_url # Null /\ next_url # ""
    THEN payload @@ ("next" :> next_url)
    ELSE payload

\* base64.urlsafe_b64encode(json.dumps(payload).encode()).decode(): the text
\* of the JSON object; b64 tells whether the text decodes at all.
Encoded(payload) == [b64 |-> TRUE, json |-> payload]

\* A string that urlsafe_b64decode or json.loads rejects
Garbage == [b64 |-> FALSE, json |-> << >>]

\* QBOStateManager.encode at time.time() = now
encode(tenant_id, entity_id, redirect_uri, next_url, now) ==
    LET payload == WithNext([tenant_id |-> tenant_id,
                             entity_id |-> entity_id,
                             redirect_uri |-> redirect_uri,
                             ts |-> now], next_url)
    IN  Encoded(payload @@ ("sig" :> signature(payload)))

\* raise QBOStateError(message)
StateError(message) == [ok |-> FALSE, payload |-> << >>, error |-> message]

\* A window closed at its end
ExpiredAtTTL(now, ts) == Abs(now - ts) >= TTL_SECONDS

\* abs(int(time.time()) - ts) > TTL_SECONDS
Expired(now, ts) == Abs(now - ts) > TTL_SECONDS

\* QBOStateManager.decode at time.time() = now
decode(token, now) ==
    IF ~token.b64 THEN StateError("Invalid OAuth state")
    ELSE
      LET keys    == DOMAIN token.json \ {"sig"}
          payload == [k \in keys |-> token.json[k]]
      IN  IF "sig" \notin DOMAIN token.json
          THEN StateError("Invalid OAuth state signature")
          ELSE IF token.json.sig # signature(payload)
          THEN StateError("Invalid OAuth state signature")
          ELSE IF Expired(now, payload.ts)
          THEN StateError("OAuth state expired")
          ELSE [ok |-> TRUE, payload |-> payload, error |-> Null]

\* The token in flight
Token == CHOOSE t \in raw_state : TRUE

\* The arguments of the encode call that issued it
Issued == CHOOSE i \in issued : TRUE

StateUnchanged == UNCHANGED <<dataVars, tenantVars, amountVars>>

\* GET /qbo/connect: a state token is issued for the caller's tenant, the
\* entity and the redirect URI.  One flow is followed at a time.
IssueState(tenant_id, entity_id, redirect_uri, next_url) ==
    /\ raw_state = {} \/ decoded # {}
    /\ issued' = {[tenant_id |-> tenant_id, entity_id |-> entity_id,
                   redirect_uri |-> redirect_uri, next_url |-> next_url,
                   ts |-> clock]}
    /\ raw_state' = {encode(tenant_id, entity_id, redirect_uri, next_url, clock)}
    /\ decoded' = {}
    /\ UNCHANGED clock
    /\ StateUnchanged

\* Time passes while the token is with the browser
Tick ==
    /\ raw_state # {} /\ decoded = {}
    /\ \E c \in Clocks : c > clock /\ clock' = c
    /\ UNCHANGED <<issued, raw_state, decoded>>
    /\ StateUnchanged

\* The values a holder of the token can write into a field of its JSON
\* text.  A digest under SECRET_KEY cannot be computed without the key;
\* what can be written is a digest under some other key.
FieldValues(field) ==
    CASE field = "tenant_id"    -> StateTenants
      [] field = "entity_id"    -> StateEntities
      [] field = "redirect_uri" -> RedirectUris
      [] field = "next"         -> NextUrls \ {Null, ""}
      [] field = "ts"           -> Clocks
      [] field = "sig"          -> { Hmac("guess", [tenant_id |-> t, entity_id |-> e, ts |-> c]) :
                                       t \in StateTenants, e \in StateEntities, c \in Clocks }

StateFields == {"tenant_id", "entity_id", "redirect_uri", "next", "ts", "sig"}

\* The number of fields in which a JSON text differs from the issued one
Changed(json) ==
    LET orig == encode(Issued.tenant_id, Issued.entity_id, Issued.redirect_uri,
                       Issued.next_url, Issued.ts).json
    IN  Cardinality({ f \in StateFields :
                        \/ (f \in DOMAIN json) # (f \in DOMAIN orig)
                        \/ f \in DOMAIN json /\ f \in DOMAIN orig /\ json[f] # orig[f] })

MaxChanged == 2

\* The holder of the token rewrites one field of it
TamperField(field, v) ==
    /\ raw_state # {} /\ decoded = {} /\ Token.b64
    /\ LET json == [k \in DOMAIN Token.json \cup {field} |->
                       IF k = field THEN v ELSE Token.json[k]]
       IN  /\ json # Token.json
           /\ Changed(json) <= MaxChanged
           /\ raw_state' = {Encoded(json)}
    /\ UNCHANGED <<clock, issued, decoded>>
    /\ StateUnchanged

\* The holder of the token removes the optional "next" or the "sig"
DropField(field) ==
    /\ raw_state # {} /\ decoded = {} /\ Token.b64
    /\ field \in DOMAIN Token.json
    /\ LET json == [k \in DOMAIN Token.json \ {field} |-> Token.json[k]]
       IN  /\ Changed(json) <= MaxChanged
           /\ raw_state' = {Encoded(json)}
    /\ UNCHANGED <<clock, issued, decoded>>
    /\ StateUnchanged

\* The holder of the token sends bytes that are no base64 of a JSON text
Garble ==
    /\ raw_state # {} /\ decoded = {} /\ Token.b64
    /\ raw_state' = {Garbage}
    /\ UNCHANGED <<clock, issued, decoded>>
    /\ StateUnchanged

\* GET /qbo/callback: payload = QBOStateManager.decode(state)
DecodeState ==
    /\ raw_state # {} /\ decoded = {}
    /\ decoded' = {decode(Token, clock)}
    /\ UNCHANGED <<clock, issued, raw_state>>
    /\ StateUnchanged

InitState ==
    /\ clock \in Clocks
    /\ issued = {}
    /\ raw_state = {}
    /\ decoded = {}
    /\ TENANT_IDENTIFICATION = "subdomain"
    /\ current_tenant_id = Null
    /\ request = {}
    /\ served = {}
    /\ value = Null
    /\ parsed = {}
    /\ DataInit

NextState ==
    \/ \E t \in StateTenants, e \in StateEntities, n \in NextUrls :
          IssueState(t, e, QBO_REDIRECT_URI, n)
    \/ Tick
    \/ \E f \in StateFields : \E v \in FieldValues(f) : TamperField(f, v)
    \/ \E f \in {"next", "sig"} : DropField(f)
    \/ Garble
    \/ DecodeState

SpecState == InitState /\ [][NextState]_vars

(***************************************************************************)
(* SpecTenant: TenantMiddleware.dispatch, core/tenant.py.  A serving       *)
(* context handles one request after the other: the middleware's entry,    *)
(* the route's tenant dependency and its endpoint, the middleware's exit.  *)
(***************************************************************************)
\* The Host header as host.split(":")[0].split(".")
Hosts == { <<"acme", "example", "com">>, <<"api", "example", "com">> }

\* The X-Tenant-ID header: absent, a UUID, or some other text
TenantHeaders == {Null, "550e8400-e29b-41d4-a716-446655440000", "not-a-uuid"}

\* Paths: one that TenantMiddleware excludes, one of the API
Paths == {"/health", "/api/v1/entities"}

excluded_paths == {"/health", "/metrics", "/docs", "/redoc", "/openapi.json"}

excluded_subdomains == {"www", "api", "admin", "app", "localhost"}

\* The tenant dependency of the route: Depends(require_tenant), or none
Dependencies == {"require_tenant", "none"}

\* How the endpoint's call ends: it returns, raises HTTPException (answered
\* inside call_next), or raises another exception, which leaves call_next
Outcomes == {"return", "HTTPException", "Exception"}

\* TenantIdentifier.from_subdomain
from_subdomain(q) ==
    IF Len(q.host) >= 3 /\ q.host[1] \notin excluded_subdomains
    THEN q.host[1] ELSE Null

\* TenantIdentifier.from_header
from_header(q) == q.header

\* TenantIdentifier.from_request
from_request(q) ==
    IF TENANT_IDENTIFICATION = "subdomain" THEN from_subdomain(q)
    ELSE IF TENANT_IDENTIFICATION = "header" THEN from_header(q)
    ELSE IF from_subdomain(q) # Null THEN from_subdomain(q)
    ELSE from_header(q)

\* The request in flight
Req == CHOOSE q \in request : TRUE

TenantUnchanged == UNCHANGED <<dataVars, stateVars, amountVars, TENANT_IDENTIFICATION>>

\* A request arrives at the application
Receive(path, host, header, dependency) ==
    /\ request = {}
    /\ path \in excluded_paths => dependency = "none"
    /\ request' = {[path |-> path, host |-> host, header |-> header,
                    dependency |-> dependency, pc |-> "dispatch",
                    state_tenant_id |-> Null, tenant_id |-> Null,
                    observed |-> Null, status |-> 0, raised |-> FALSE]}
    /\ UNCHANGED <<current_tenant_id, served>>
    /\ TenantUnchanged

\* TenantMiddleware.dispatch up to call_next: an excluded path is passed
\* on untouched; otherwise the identified tenant is set in the context, or
\* the context is cleared.
Dispatch ==
    /\ request # {} /\ Req.pc = "dispatch"
    /\ IF Req.path \in excluded_paths
       THEN /\ request' = {[Req EXCEPT !.pc = "call_next"]}
            /\ UNCHANGED current_tenant_id
       ELSE /\ request' = {[Req EXCEPT !.pc = "call_next",
                                       !.state_tenant_id = from_request(Req)]}
            /\ current_tenant_id' = from_request(Req)
    /\ UNCHANGED served
    /\ TenantUnchanged

\* The route's dependency require_tenant: get_current_tenant identifies the
\* tenant and sets it in the context; without a tenant HTTPException(400)
\* is raised and the endpoint is not called.
RequireTenant ==
    /\ request # {} /\ Req.pc = "call_next" /\ Req.dependency = "require_tenant"
    /\ LET tenant_id == from_request(Req) IN
       IF tenant_id # Null
       THEN /\ current_tenant_id' = tenant_id
            /\ request' = {[Req EXCEPT !.pc = "endpoint", !.tenant_id = tenant_id]}
       ELSE /\ UNCHANGED current_tenant_id
            /\ request' = {[Req EXCEPT !.pc = "finally", !.status = 400]}
    /\ UNCHANGED served
    /\ TenantUnchanged

\* A route without tenant dependency
NoDependency ==
    /\ request # {} /\ Req.pc = "call_next" /\ Req.dependency = "none"
    /\ request' = {[Req EXCEPT !.pc = "endpoint"]}
    /\ UNCHANGED <<current_tenant_id, served>>
    /\ TenantUnchanged

\* The endpoint runs with the context as it finds it (TenantContext.get())
Endpoint(outcome) ==
    /\ request # {} /\ Req.pc = "endpoint"
    /\ request' = {[Req EXCEPT
          !.pc = "finally",
          !.observed = current_tenant_id,
          !.status = CASE outcome = "return" -> 200
                       [] outcome = "HTTPException" -> 404
                       [] outcome = "Exception" -> 500,
          !.raised = (outcome = "Exception")]}
    /\ UNCHANGED <<current_tenant_id, served>>
    /\ TenantUnchanged

\* A clear that follows the return of call_next only
ClearOnReturn(raised, context) == IF raised THEN context ELSE Null

\* finally: tenant_context.clear(), whether call_next returned or raised
ClearFinally(raised, context) == Null

\* TenantMiddleware.dispatch after call_next; an excluded path has left
\* dispatch by "return await call_next(request)".
Finish ==
    /\ request # {} /\ Req.pc = "finally"
    /\ current_tenant_id' = IF Req.path \in excluded_paths THEN current_tenant_id
                            ELSE ClearFinally(Req.raised, current_tenant_id)
    /\ served' = {[Req EXCEPT !.pc = "done"]}
    /\ request' = {}
    /\ TenantUnchanged

InitTenant ==
    /\ TENANT_IDENTIFICATION \in {"subdomain", "header", "both"}
    /\ current_tenant_id = Null
    /\ request = {}
    /\ served = {}
    /\ clock = 0
    /\ issued = {}
    /\ raw_state = {}
    /\ decoded = {}
    /\ value = Null
    /\ parsed = {}
    /\ DataInit

NextTenant ==
    \/ \E p \in Paths, h \in Hosts, x \in TenantHeaders, d \in Dependencies :
          Receive(p, h, x, d)
    \/ Dispatch
    \/ RequireTenant
    \/ NoDependency
    \/ \E outcome \in Outcomes : Endpoint(outcome)
    \/ Finish

SpecTenant == InitTenant /\ [][NextTenant]_vars

(***************************************************************************)
(* SpecAmount: _parse_amount applied to every text of up to MaxAmountLen    *)
(* characters, and to None                                                 *)
(***************************************************************************)
MaxAmountLen == 4

\* The characters of the amounts explored
AmountChars == {"1", "5", ",", ".", "(", ")", "-", " ", "N", "a"}

\* fetch_trial_balance: amount = _parse_amount(amount_raw)
ParseAmount ==
    /\ parsed = {}
    /\ parsed' = {parse_amount(value)}
    /\ UNCHANGED <<value, dataVars, stateVars, tenantVars>>

\* amount_raw = col_data[-1].get("value"): any text of up to MaxAmountLen
\* characters, or no value
InitAmount ==
    /\ value \in {None} \cup
          { Text(s) : s \in UNION { [1..n -> AmountChars] : n \in 0..MaxAmountLen } }
    /\ parsed = {}
    /\ clock = 0
    /\ issued = {}
    /\ raw_state = {}
    /\ decoded = {}
    /\ TENANT_IDENTIFICATION = "subdomain"
    /\ current_tenant_id = Null
    /\ request = {}
    /\ served = {}
    /\ DataInit

NextAmount == ParseAmount

SpecAmount == InitAmount /\ [][NextAmount]_vars

(***************************************************************************)
(* Row visibility, tenant isolation and tenant access                      *)
(***************************************************************************)

\* The user holds the client role in the tenant
HasClientRole(tenant_id, user_id) ==
    \E m \in tenantMemberships :
        /\ m.tenant_id = tenant_id
        /\ m.user_id = user_id
        /\ m.role_slug = "client"

\* The entity is reachable for the user in the tenant: through a group
\* membership and that group's entity assignment, or by a direct grant
Reachable(tenant_id, user_id, entity_id) ==
    \/ \E m \in clientGroupMemberships, ge \in clientGroupEntities :
          /\ m.tenant_id = tenant_id
          /\ m.user_id = user_id
          /\ ge.client_group_id = m.client_group_id
          /\ ge.entity_id = entity_id
    \/ \E em \in entityMemberships :
          /\ em.tenant_id = tenant_id
          /\ em.user_id = user_id
          /\ em.entity_id = entity_id

\* The rows of the table an entity-scoped endpoint reads, each paired with
\* the entity it belongs to
ScopedTable(op) ==
    IF op \in {"list_entities", "get_entity"}
    THEN { <<e, e.id>> : e \in entities }
    ELSE IF op \in {"list_qbo_connections", "get_qbo_connection"}
    THEN { <<c, c.entity_id>> : c \in connections }
    ELSE { <<runs[r], runs[r].entity_id>> : r \in DOMAIN runs }

\* The rows the endpoint is to return for the request
ExpectedRows(op, tenant_id, user_id, id) ==
    LET scoped == { p \in ScopedTable(op) :
                      /\ p[1].tenant_id = tenant_id
                      /\ HasClientRole(tenant_id, user_id)
                            => Reachable(tenant_id, user_id, p[2]) }
    IN  IF op = "list_import_runs"
        THEN { p[1] : p \in { q \in scoped : id = Null \/ q[2] = id } }
        ELSE IF op \in {"list_entities", "list_qbo_connections"}
        THEN { p[1] : p \in scoped }
        ELSE { p[1] : p \in { q \in scoped : q[1].id = id } }

EntityScopedOps ==
    { "list_entities", "get_entity", "list_qbo_connections",
      "get_qbo_connection", "list_import_runs", "get_import_run" }

ReadOps == EntityScopedOps \cup {"list_client_groups", "get_client_group"}

\* C6: an entity-scoped endpoint returns to a client exactly the tenant's
\* rows whose entity is reachable through a group membership and the
\* group's entity assignment or through a direct EntityMembership, and to
\* any other caller all of the tenant's rows; a detail endpoint answers 404
\* exactly when the requested row is not among them.
C6_EntityVisibility ==
    response.op \in EntityScopedOps =>
        LET expected == ExpectedRows(response.op, response.tenant_id,
                                     response.user_id, response.id)
        IN  /\ response.status = 200 => response.rows = expected
            /\ response.status # 200 => (response.status = 404 /\ expected = {})

\* A client has listed the tenant's entities and got some, not all, of
\* them, one of them reachable only by a direct EntityMembership.
C6_ClientSeesReachableOnly ==
    /\ response.op = "list_entities"
    /\ response.status = 200
    /\ HasClientRole(response.tenant_id, response.user_id)
    /\ response.rows # {}
    /\ response.rows # { e \in entities : e.tenant_id = response.tenant_id }
    /\ \E e \in response.rows :
          e.id \notin GroupEntityIds(response.tenant_id, response.user_id)

\* C7: every row returned by a list or detail endpoint of entities, client
\* groups, QBO connections and import runs belongs to the tenant of the
\* request's tenant context.
C7_TenantIsolation ==
    response.op \in ReadOps =>
        \A row \in response.rows : row.tenant_id = response.tenant_id

\* A caller without any role in t1 has listed t1's connections and got
\* rows, while another tenant holds a connection to the same realm.
C7_RowsWhileOtherTenantHoldsRows ==
    /\ response.op = "list_qbo_connections"
    /\ response.tenant_id = "t1"
    /\ response.rows # {}
    /\ ~\E m \in tenantMemberships :
          m.tenant_id = "t1" /\ m.user_id = response.user_id
    /\ \E c \in connections, d \in response.rows :
          c.tenant_id # "t1" /\ c.realm_id = d.realm_id

IsTenantMember(tenant_id, user_id) ==
    \E m \in tenantMemberships : m.tenant_id = tenant_id /\ m.user_id = user_id

\* C8: for every request served, validate_tenant_access(T, user) is true
\* exactly when a TenantMembership row for (T, user) exists, and a request
\* in tenant context T by a user without such a row is answered 403 with no
\* data.
C8_NonMemberRefused ==
    response.op # "none" =>
        /\ validate_tenant_access(response.tenant_id, response.user_id)
              <=> IsTenantMember(response.tenant_id, response.user_id)
        /\ ~IsTenantMember(response.tenant_id, response.user_id)
              => (response.status = 403 /\ response.rows = {})

\* The client memberships of a user in a tenant
ClientMemberships(table, tenant_id, user_id) ==
    { m \in table : /\ m.tenant_id = tenant_id
                    /\ m.user_id = user_id
                    /\ m.role_slug = "client" }

\* C9: every (tenant, user) has at most one client-group membership with
\* role_slug client; a request to add such a membership for a user who has
\* one adds no row, and is answered 409 when it comes from a caller allowed
\* to change memberships and names a group of the tenant.
C9_OneClientMembership ==
    /\ [](\A t \in Tenants, u \in Users :
             Cardinality(ClientMemberships(clientGroupMemberships, t, u)) <= 1)
    /\ [][(/\ response'.op = "add_member_to_group"
           /\ response'.id[3] = "client"
           /\ ClientMemberships(clientGroupMemberships, response'.tenant_id,
                                response'.id[2]) # {})
             => /\ clientGroupMemberships' = clientGroupMemberships
                /\ (/\ ~IsClient(response'.tenant_id, response'.user_id)
                    /\ \E g \in clientGroups : /\ g.id = response'.id[1]
                                               /\ g.tenant_id = response'.tenant_id)
                      => response'.status = 409]_vars

\* A second client membership, in another group of the tenant, has been
\* asked for a user who has one, and was answered 409.
C9_SecondClientMembershipRefused ==
    /\ response.op = "add_member_to_group"
    /\ response.status = 409
    /\ response.id[3] = "client"
    /\ \E m \in ClientMemberships(clientGroupMemberships, response.tenant_id,
                                  response.id[2]) :
          m.client_group_id # response.id[1]

\* C10: every entity has at most one QBOConnection and every realm_id is
\* linked to at most one entity within a tenant; a request whose write
\* would break either rule is answered 409 and leaves the connections
\* unchanged.
C10_ConnectionsUniqueOrConflict ==
    /\ [](ConnUnique(connections))
    /\ [][\A q \in connReqs :
            (q \notin connReqs' /\ ~ConnUnique(WriteResult(connections, q)))
                => (response'.status = 409 /\ connections' = connections)]_vars

\* The uniqueness half of C10 on its own
ConnectionsUnique == ConnUnique(connections)

(***************************************************************************)
(* The import run state machine and the snapshot store                     *)
(***************************************************************************)

AllowedStatusSteps ==
    { <<"queued", "running">>, <<"running", "success">>, <<"running", "failed">> }

\* C1: the stored status of every run changes only along queued->running,
\* running->success or running->failed, a success or failed run keeps its
\* status, and no run is deleted.
C1_StatusStateMachine ==
    [][\A r \in DOMAIN runs :
          /\ r \in DOMAIN runs'
          /\ runs'[r].status # runs[r].status
                => <<runs[r].status, runs'[r].status>> \in AllowedStatusSteps]_vars

\* C2: after an attempt that met HTTP 429 the task waits for its retry, it
\* has been retried at most max_retries times, and the run's stored status
\* is running with no error_text and no finished_at.
C2_RateLimitLeavesRunning ==
    \A r \in DOMAIN tasks :
        /\ tasks[r].retries <= max_retries
        /\ tasks[r].state = "RETRY"
              => /\ runs[r].status = "running"
                 /\ runs[r].error_text = Null
                 /\ runs[r].finished_at = Null

ExecutionErrors ==
    { "QBOError: Missing refresh token", "HTTPError: token refresh",
      "HTTPError: trial balance", "MultipleResultsFound" }

\* C3: an execution that ended with an error of the token refresh, of the
\* fetch or of persisting the snapshot leaves the run stored failed with
\* error_text and finished_at set, and the task is not run again.
C3_ErrorMarksFailed ==
    \A r \in DOMAIN tasks :
        (tasks[r].last_exc \in ExecutionErrors /\ exec[r].pc = "idle")
            => /\ tasks[r].state \in {"SUCCESS", "FAILURE"}
               /\ runs[r].status = "failed"
               /\ runs[r].error_text # Null
               /\ runs[r].finished_at # Null

\* C4: an execution that found no QBOConnection for the run's entity ends
\* with the run stored failed, and the task is not retried.
C4_ConnectionMissingMarksFailed ==
    \A r \in DOMAIN tasks :
        tasks[r].last_exc = "QBOError: QBO connection for entity not found"
            => /\ tasks[r].state = "FAILURE"
               /\ runs[r].status = "failed"

SameSnapshotKey(a, b) ==
    /\ a.entity_id = b.entity_id
    /\ a.tax_year = b.tax_year
    /\ a.period_end_date = b.period_end_date

\* The snapshot rows persisted for run r
RunSnapshots(r) == { s \in snapshots : s.import_run_id = r }

\* C5: snapshots are append-only.  Two succeeded runs of the same (entity,
\* tax_year, period_end_date) each have a snapshot row of their own, with
\* distinct ids, and no step removes or changes a stored snapshot or line.
C5_SnapshotsAppendOnly ==
    /\ [](\A r1, r2 \in DOMAIN runs :
             (/\ r1 # r2
              /\ SameSnapshotKey(runs[r1], runs[r2])
              /\ runs[r1].status = "success"
              /\ runs[r2].status = "success")
                => /\ RunSnapshots(r1) # {}
                   /\ RunSnapshots(r2) # {}
                   /\ \A s1 \in RunSnapshots(r1), s2 \in RunSnapshots(r2) :
                         s1.id # s2.id)
    /\ [][snapshots \subseteq snapshots' /\ lines \subseteq lines']_vars

\* Two runs of one key have both succeeded and the store holds a snapshot
\* with lines for each, the second stored after the first.
C5_TwoSnapshotsOneKey ==
    \E r1, r2 \in DOMAIN runs :
        /\ r1 # r2
        /\ SameSnapshotKey(runs[r1], runs[r2])
        /\ runs[r1].status = "success"
        /\ runs[r2].status = "success"
        /\ \E s1 \in RunSnapshots(r1), s2 \in RunSnapshots(r2) :
              /\ s1 # s2
              /\ \E l \in lines : l.snapshot_id = s1.id
              /\ \E l \in lines : l.snapshot_id = s2.id

(***************************************************************************)
(* The OAuth state token                                                   *)
(***************************************************************************)
\* The token as encode returned it for the flow in progress
IssuedToken ==
    encode(Issued.tenant_id, Issued.entity_id, Issued.redirect_uri,
           Issued.next_url, Issued.ts)

\* The payload that was encoded: the token's JSON object without "sig"
IssuedPayload ==
    [k \in DOMAIN IssuedToken.json \ {"sig"} |-> IssuedToken.json[k]]

StateInvalid == {"Invalid OAuth state", "Invalid OAuth state signature"}

StateExpired == {"OAuth state expired"}

\* The token carries the digest of its own payload under SECRET_KEY
CorrectlySigned(token) ==
    /\ token.b64
    /\ "sig" \in DOMAIN token.json
    /\ token.json.sig = signature([k \in DOMAIN token.json \ {"sig"} |-> token.json[k]])

\* C11: a token that differs from the one encode produced, in any field of
\* its payload or in its signature, is refused by decode with an invalid
\* state error, and a payload that decode returns is the encoded payload.
C11_TamperedStateRejected ==
    \A d \in decoded :
        /\ Token # IssuedToken => (~d.ok /\ d.error \in StateInvalid)
        /\ d.ok => d.payload = IssuedPayload

C13_StateWindow ==
    \A d \in decoded :
        CorrectlySigned(Token) =>
            /\ clock - Token.json.ts > TTL_SECONDS
                  => (~d.ok /\ d.error \in StateExpired)
            /\ clock - Token.json.ts \in 0..TTL_SECONDS => d.ok

\* A correctly signed token has been decoded exactly TTL_SECONDS after it
\* was issued, and accepted.
C13_DecodedAtWindowEnd ==
    \E d \in decoded :
        /\ CorrectlySigned(Token)
        /\ clock - Token.json.ts = TTL_SECONDS
        /\ d.ok

(***************************************************************************)
(* The ambient tenant context and the tenant header                        *)
(***************************************************************************)
\* C14: the tenant context is cleared at the end of every request, however
\* the request ended: while no request is in flight the context holds no
\* tenant id, and the endpoint of a request that supplies no tenant
\* observes no tenant id.
C14_ContextCleared ==
    /\ request = {} => current_tenant_id = Null
    /\ \A q \in request \cup served :
          (q.pc \in {"finally", "done"} /\ q.status # 400 /\ from_request(q) = Null)
              => q.observed = Null

\* A request with a tenant ended by an unhandled exception, and the endpoint
\* of the next request, which supplies no tenant, has run.
C14_RequestAfterFailedRequest ==
    \E s \in served, q \in request :
        /\ s.state_tenant_id # Null /\ s.raised
        /\ from_request(q) = Null
        /\ q.pc = "finally" /\ q.status = 200
        /\ q.observed = Null

\* The header values that are UUIDs
ValidUUIDs == {"550e8400-e29b-41d4-a716-446655440000"}

\* C15: with the tenant taken from the header, require_tenant returns and
\* publishes a tenant id only when the header carries a valid UUID.  An
\* absent header and a header that is no UUID both end in 400 with no
\* tenant id returned and none published in the context.
C15_HeaderMustBeUUID ==
    \A q \in request \cup served :
        (/\ TENANT_IDENTIFICATION = "header"
         /\ q.dependency = "require_tenant"
         /\ q.pc \in {"endpoint", "finally", "done"})
        => IF q.header \in ValidUUIDs
           THEN q.tenant_id = q.header
           ELSE /\ from_header(q) = Null
                /\ q.status = 400
                /\ q.tenant_id = Null
                /\ q.state_tenant_id = Null
                /\ q.pc = "endpoint" => current_tenant_id = Null

(***************************************************************************)
(* Client-group visibility                                                 *)
(***************************************************************************)
\* The tenant's groups in which the user holds a ClientGroupMembership row
MemberGroups(tenant_id, user_id) ==
    { g \in clientGroups :
        /\ g.tenant_id = tenant_id
        /\ \E m \in clientGroupMemberships :
              /\ m.tenant_id = tenant_id
              /\ m.user_id = user_id
              /\ m.client_group_id = g.id }

\* C16: the client-group endpoints return to a user whose role is client
\* exactly the tenant's groups in which the user holds a
\* ClientGroupMembership row (of whatever membership role), and to a user
\* of any other role, or of no role, all of the tenant's groups.
C16_ClientGroupVisibility ==
    response.op \in {"list_client_groups", "get_client_group"} =>
        LET t == response.tenant_id
            u == response.user_id
            visible == IF HasClientRole(t, u) THEN MemberGroups(t, u)
                       ELSE { g \in clientGroups : g.tenant_id = t }
            expected == IF response.op = "list_client_groups" THEN visible
                        ELSE { g \in visible : g.id = response.id }
        IN  /\ response.status = 200 => response.rows = expected
            /\ response.status # 200 => (response.status = 404 /\ expected = {})

\* A client has listed the groups and got some, not all, of the tenant's
\* groups, one of them through a membership whose role is not client.
C16_ClientSeesMemberGroupsOnly ==
    /\ response.op = "list_client_groups"
    /\ response.status = 200
    /\ HasClientRole(response.tenant_id, response.user_id)
    /\ response.rows # { g \in clientGroups : g.tenant_id = response.tenant_id }
    /\ \E g \in response.rows : \E m \in clientGroupMemberships :
          /\ m.client_group_id = g.id
          /\ m.user_id = response.user_id
          /\ m.role_slug # CLIENT_ROLE_SLUG

(***************************************************************************)
(* Import run creation                                                     *)
(***************************************************************************)
\* A create_import_run request has been answered in this step
CreateAnswered ==
    /\ response'.op = "create_import_run"
    /\ response.op # "create_import_run" \/ response' # response

\* The request's entity, or the client group it supplies, does not exist in
\* the tenant or is not visible to the caller
CreateTargetMissing ==
    LET t == response'.tenant_id
        u == response'.user_id
        entity_id == response'.id[1]
        client_group_id == response'.id[2]
    IN  \/ ~\E e \in entities :
              /\ e.id = entity_id /\ e.tenant_id = t
              /\ HasClientRole(t, u) => Reachable(t, u, e.id)
        \/ /\ client_group_id # Null
           /\ ~\E g \in clientGroups :
                 /\ g.id = client_group_id /\ g.tenant_id = t
                 /\ HasClientRole(t, u) => g \in MemberGroups(t, u)

\* Nothing is persisted and nothing is dispatched
CreateLeavesNothing ==
    /\ runs' = runs
    /\ clientGroupTaxYears' = clientGroupTaxYears
    /\ tasks' = tasks

\* Exactly one new run, in status queued, and exactly one new task, for it
CreatePersistsOneRun ==
    /\ response'.status = 201
    /\ \E r \in DOMAIN runs' \ DOMAIN runs :
          /\ DOMAIN runs' = DOMAIN runs \cup {r}
          /\ \A x \in DOMAIN runs : runs'[x] = runs[x]
          /\ runs'[r].status = "queued"
          /\ runs'[r].tenant_id = response'.tenant_id
          /\ runs'[r].entity_id = response'.id[1]
          /\ response'.rows = {runs'[r]}
          /\ DOMAIN tasks' = DOMAIN tasks \cup {r}
          /\ r \notin DOMAIN tasks
          /\ tasks'[r].state = "PENDING"
          /\ \A x \in DOMAIN tasks : tasks'[x] = tasks[x]

IsAmount(s) ==
    LET inner  == IF Parenthesized(s) THEN SubSeq(s, 2, Len(s) - 1) ELSE s
        digits == Remove(Remove(inner, ","), ".")
    IN  /\ digits # << >>
        /\ AllDigits(digits)
        /\ Len(Remove(inner, ",")) - Len(digits) <= 1

\* The value of an amount: its digits, scaled by the number of digits after
\* the point, negative when wrapped in parentheses
AmountValue(s) ==
    LET inner  == Remove(IF Parenthesized(s) THEN SubSeq(s, 2, Len(s) - 1) ELSE s, ",")
        points == { i \in 1..Len(inner) : inner[i] = "." }
        after  == IF points = {} THEN 0
                  ELSE Len(inner) - (CHOOSE i \in points : TRUE)
    IN  Number(IF Parenthesized(s) THEN 1 ELSE 0,
               DigitsValue(Remove(inner, ".")), -after)

\* C18: for every input the amount parser returns a decimal number: the
\* value of the text with its thousands separators removed, negated when
\* the text is wrapped in parentheses, and 0 for an empty, missing or
\* unparsable input (a text that is not such an amount or a signed decimal).
C18_AmountParsed ==
    \A r \in parsed :
        /\ ~r.nan
        /\ (value.none \/ ~\E i \in 1..Len(value.text) : IsDigit(value.text[i]))
              => r = Zero
        /\ (~value.none /\ IsAmount(value.text)) => r = AmountValue(value.text)

(***************************************************************************)
(* Executions, snapshots and refreshed tokens                              *)
(***************************************************************************)
\* The snapshots that reference the run
SnapshotsOf(r) == { s \in snapshots : s.import_run_id = r }

\* C19: every run in status success is referenced by exactly one
\* TrialBalanceSnapshot, no run is referenced by more than one snapshot,
\* also when its task was retried after rate limiting, and at no time are
\* two executions of the same run in progress.
C19_OneSnapshotOneExecution ==
    /\ \A r \in DOMAIN runs :
          /\ Cardinality(SnapshotsOf(r)) <= 1
          /\ runs[r].status = "success" => Cardinality(SnapshotsOf(r)) = 1
    /\ \A r \in DOMAIN tasks : tasks[r].active <= 1

\* A run whose task was throttled and retried has succeeded and has its
\* snapshot, while another execution is in progress.
C19_RetriedRunSucceeded ==
    \E r \in DOMAIN runs :
        /\ runs[r].status = "success"
        /\ tasks[r].retries >= 1
        /\ Cardinality(SnapshotsOf(r)) = 1
        /\ \E r2 \in DOMAIN tasks : r2 # r /\ tasks[r2].active = 1

\* C20: when an execution has refreshed the connection's tokens, the new
\* access token, refresh token and expiry are on the stored QBOConnection
\* once the execution has ended, whether the fetch succeeded, failed or was
\* rate limited.
C20_RefreshedTokensPersisted ==
    [][\A r \in RunIds :
          (exec[r].refreshed /\ exec[r].pc # "idle" /\ exec'[r].pc = "idle")
              => \E c \in connections' :
                    /\ c.id = SessionConn(r).id
                    /\ c.access_token = SessionConn(r).access_token
                    /\ c.refresh_token = SessionConn(r).refresh_token
                    /\ c.token_expires_at = SessionConn(r).token_expires_at]_vars

(***************************************************************************)
(* The fields of a stored run                                              *)
(***************************************************************************)
\* C24: in every stored state a run in status success has finished_at set
\* and no error_text, a run in status failed has finished_at and error_text
\* set, and a run in status queued or running has no finished_at.
C24_TerminalFields ==
    \A r \in DOMAIN runs :
        /\ runs[r].status \in {"queued", "running", "success", "failed"}
        /\ runs[r].status = "success"
              => runs[r].finished_at # Null /\ runs[r].error_text = Null
        /\ runs[r].status = "failed"
              => runs[r].finished_at # Null /\ runs[r].error_text # Null
        /\ runs[r].status \in {"queued", "running"}
              => runs[r].finished_at = Null

\* One run is stored success and another is stored failed
C24_SuccessAndFailedStored ==
    \E r1, r2 \in DOMAIN runs :
        /\ runs[r1].status = "success"
        /\ runs[r2].status = "failed"

(***************************************************************************)
(* An invocation of process_run that ends by raising                       *)
(***************************************************************************)
\* The step ends an invocation of process_run for r with an exception: the
\* task fails or asks for a retry.
Raises(r) ==
    /\ r \in DOMAIN tasks
    /\ tasks'[r] # tasks[r]
    /\ tasks'[r].state \in {"FAILURE", "RETRY"}

\* C28: when an invocation of process_run ends by raising (run not found,
\* no connection, token refresh failure, rate limit), nothing it changed is
\* stored: the run rows, the connections and the snapshot, account and line
\* tables are as before, and the invocation's session holds nothing.
C28_RaiseRollsBack ==
    [][\A r \in RunIds :
          Raises(r) => /\ runs' = runs
                       /\ connections' = connections
                       /\ snapshots' = snapshots
                       /\ accounts' = accounts
                       /\ lines' = lines
                       /\ exec'[r] = Idle]_vars

\* An invocation that had marked the run running and refreshed the expired
\* token was rate limited: the run is stored queued, the connection holds
\* the expired token, and the task waits for its retry.
C28_RolledBackAfterRefresh ==
    \E r \in DOMAIN tasks :
        /\ tasks[r].state = "RETRY"
        /\ exec[r] = Idle
        /\ runs[r].status = "queued"
        /\ runs[r].started_at = Null
        /\ \E c \in RunConnections(runs[r], runs[r].tenant_id) :
              TokenExpired(c) /\ c.refresh_token # 0 /\ c.access_token = 1

(***************************************************************************)
(* The order of the steps of one execution                                 *)
(***************************************************************************)
\* C21: within one execution the steps follow the order token refresh (when
\* the stored token has expired), mark running, fetch, persist snapshot,
\* mark terminal: while a needed refresh has not completed the run is not
\* marked running, the fetch is awaited only with the run marked running,
\* and a terminal status is set only with the snapshot written.
C21_StepOrder ==
    \A r \in RunIds :
        /\ exec[r].pc = "refresh" => SessionRun(r).status # "running"
        /\ exec[r].pc = "fetch" => SessionRun(r).status = "running"
        /\ exec[r].pc = "commit" => exec[r].snap # {}

(***************************************************************************)
(* The stored run while the provider is called                             *)
(***************************************************************************)
\* The rows that get_import_run(run_id) and list_import_runs select for a
\* staff caller of the run's tenant, in a session of their own
ReadRun(r) ==
    { x \in VisibleRuns(runs[r].tenant_id, "u2") : x.id = r }

\* C22: while the trial-balance call of an execution is in progress, the
\* stored run, as a concurrent get_import_run or list_import_runs reads it,
\* has status running and started_at set.
C22_RunningWhileFetching ==
    \A r \in RunIds :
        exec[r].pc = "fetch"
            => /\ ReadRun(r) # {}
               /\ \A x \in ReadRun(r) :
                     x.status = "running" /\ x.started_at # Null

(***************************************************************************)
(* Termination of a run                                                    *)
(***************************************************************************)
\* C23: under a fair worker queue every created run eventually has status
\* success or failed, whatever the provider answers and whether or not the
\* entity has a connection.
C23_EveryRunEnds ==
    \A r \in RunIds :
        (r \in DOMAIN runs)
            ~> (r \in DOMAIN runs /\ runs[r].status \in {"success", "failed"})

(***************************************************************************)
(* Report rows, lines and accounts                                         *)
(***************************************************************************)
\* The text starts with "total" written in any letter case
StartsWithTotal(text) ==
    /\ Len(text) >= 5
    /\ text[1] \in {"t", "T"}
    /\ text[2] \in {"o", "O"}
    /\ text[3] \in {"t", "T"}
    /\ text[4] \in {"a", "A"}
    /\ text[5] \in {"l", "L"}

\* The row has at least two columns and a non-empty account name that
\* does not start with "total"
Qualifies(row) ==
    /\ Len(row.ColData) >= 2
    /\ ~row.ColData[1].none
    /\ row.ColData[1].text # << >>
    /\ ~StartsWithTotal(row.ColData[1].text)

QualifyingRows(rows) == { i \in 1..Len(rows) : Qualifies(rows[i]) }

\* The lines stored for the snapshots of run r
LinesOf(table, snaps, r) ==
    { l \in table : \E s \in snaps : s.import_run_id = r /\ l.snapshot_id = s.id }

\* C27: when an execution ends in success, the stored snapshot has exactly
\* one line per fetched row that has at least two columns, a non-empty
\* account name and a name not starting with "total" in any letter case,
\* with that row's amount, and no line for any other row.
C27_OneLinePerQualifyingRow ==
    [][\A r \in RunIds :
          (exec[r].pc = "commit" /\ exec'[r].pc = "idle"
             /\ runs'[r].status = "success")
          => /\ Cardinality(LinesOf(lines', snapshots', r))
                  = Cardinality(QualifyingRows(exec[r].rows))
             /\ \A i \in QualifyingRows(exec[r].rows) :
                   \E l \in LinesOf(lines', snapshots', r) :
                       l.amount = parse_amount(
                           exec[r].rows[i].ColData[Len(exec[r].rows[i].ColData)])]_vars

\* A run whose report had three rows, one of them "Total Assets", is stored
\* success with one snapshot of two lines.
C27_ThreeRowsTwoLines ==
    \E r \in DOMAIN runs :
        /\ runs[r].status = "success"
        /\ Cardinality(SnapshotsOf(r)) = 1
        /\ Cardinality(LinesOf(lines, snapshots, r)) = 2

\* C30: a run stored failed is referenced by no snapshot and no line: an
\* execution that fails after its snapshot was written stores nothing of
\* that attempt.
C30_FailedRunStoresNothing ==
    \A r \in DOMAIN runs :
        runs[r].status = "failed"
            => /\ SnapshotsOf(r) = {}
               /\ LinesOf(lines, snapshots, r) = {}

\* Two account rows of one tenant and entity carry the same key
SameAccountKey(a, b) ==
    /\ a.tenant_id = b.tenant_id
    /\ a.entity_id = b.entity_id
    /\ \/ Truthy(a.external_account_id)
             /\ a.external_account_id = b.external_account_id
       \/ ~Truthy(a.external_account_id) /\ ~Truthy(b.external_account_id)
             /\ a.name = b.name

\* C26: after any executions, concurrent ones included, no two stored
\* accounts of one tenant and entity share a non-null external id, no two
\* without external id share a name, and every stored line references a
\* stored account.
C26_AccountsDeduplicated ==
    /\ \A a, b \in accounts : SameAccountKey(a, b) => a = b
    /\ \A l \in lines : \E a \in accounts : a.id = l.account_id

(***************************************************************************)
(* Creation: the tax-year record, the commit and the dispatch              *)
(***************************************************************************)
SameTaxYearKey(a, b) ==
    /\ a.tenant_id = b.tenant_id
    /\ a.client_group_id = b.client_group_id
    /\ a.tax_year = b.tax_year

\* C25: after any creations, interleaved ones included, there is at most
\* one stored ClientGroupTaxYear per (tenant, client group, tax year); a
\* creation whose query found the record adds none and its run is linked
\* to that record, and every stored run of a group is linked to the stored
\* record of its group and tax year.
C25_OneTaxYearPerKey ==
    /\ \A a, b \in clientGroupTaxYears : SameTaxYearKey(a, b) => a = b
    /\ \A r \in DOMAIN runs :
          runs[r].client_group_id # Null
              => \E y \in clientGroupTaxYears :
                    /\ SameTaxYearKey(y, runs[r])
                    /\ y.id = runs[r].client_group_tax_year_id
    /\ \A q \in DOMAIN creates :
          creates[q].target # {}
              => /\ creates[q].added = {}
                 /\ \A x \in creates[q].run :
                       \E y \in creates[q].target :
                           x.client_group_tax_year_id = y.id

\* Two runs of one group and tax year are stored, the second created by a
\* request that found the record of the first: one record, both linked.
C25_SecondRunLinked ==
    \E q1, q2 \in DOMAIN runs :
        /\ q1 # q2
        /\ runs[q1].client_group_id # Null
        /\ runs[q1].client_group_id = runs[q2].client_group_id
        /\ runs[q1].client_group_tax_year_id = runs[q2].client_group_tax_year_id
        /\ creates[q2].target # {}
        /\ Cardinality(clientGroupTaxYears) = 1

\* C29: the worker never begins a run before the transaction that created
\* it has committed: no invocation of process_run for a dispatched run
\* misses the run row, and a creation that was rolled back has dispatched
\* no task.
C29_CommitBeforeWorker ==
    /\ \A r \in DOMAIN tasks :
          tasks[r].last_exc # "QBOError: Import run not found"
    /\ \A q \in DOMAIN creates :
          creates[q].pc = "failed" => q \notin DOMAIN tasks
=============================================================================
